---- MODULE Spec2Model ----
(***************************************************************************)
(* A model of deepseek-mpi: the strided chunk cursor (input_chunker.c),    *)
(* the retrying backend client (api_client.c) and the MPI coordinator      *)
(* with its per-rank chunk orchestrator (main.c).                          *)
(*                                                                         *)
(* The specifications share the module's variables; the first three are:   *)
(*   SpecCursor  every rank drives its own ChunkCursor to exhaustion;      *)
(*   SpecSend    one call of api_client_send, one action per attempt;      *)
(*   Spec        main(): one-shot and REPL runs over MPI_COMM_WORLD.       *)
(***************************************************************************)
EXTENDS Integers, Sequences, FiniteSets, TLC

(***************************************************************************)
(* Bounds of the model.                                                    *)
(***************************************************************************)
\* size_t is an unsigned word; the build has 64 bits, the model SizeBits.
SizeBits == 12
\* long is a signed word; the build has 64 bits, the model LongBits.
LongBits == 16
\* MPI world sizes 1..MaxWorld.
MaxWorld == 2
\* SpecCursor: total_length ranges over 0..MaxTotal.
MaxTotal == 5
\* SpecCursor: small chunk sizes 0..MaxSmallChunk besides the word-sized ones.
MaxSmallChunk == 3
\* SpecCursor: a cursor is called while its local counter is below MaxCalls.
MaxCalls == 4
\* SpecSend: max_retries ranges over -1..MaxRetries.
MaxRetries == 5
\* SpecSend: chunk_index ranges over 0..MaxSendIndex.
MaxSendIndex == 1
\* Spec: captured payloads have 0, 100, ..., 100 * MaxLenSteps bytes.
MaxLenSteps == 3
\* Spec: network_retry_limit ranges over -1..MaxResets before config_finalize.
MaxResets == 1
\* Spec: a REPL session takes prompts for turns 1..MaxTurns, then the sentinel.
MaxTurns == 1
\* The broadcasts MPI buffers for a rank that has yet to take them.
MaxBuffered == 5
\* int holds at most INT_MAX; the build has 2^31 - 1, the model IntMax.
IntMax == 256

SizeMod == 2 ^ SizeBits

\* Unsigned size_t arithmetic wraps modulo the word size.
Wrap(x) == x % SizeMod

LongMod == 2 ^ LongBits

\* Signed long arithmetic as the build computes it: two's complement.
WrapLong(x) == ((x + LongMod \div 2) % LongMod) - LongMod \div 2


RECURSIVE SumOver(_, _)
SumOver(f, S) ==
  IF S = {} THEN 0
  ELSE LET x == CHOOSE y \in S : TRUE IN f[x] + SumOver(f, S \ {x})

(***************************************************************************)
(* input_chunker.c                                                         *)
(***************************************************************************)
chunk_cursor_init(chunk_size, total_length, rank, world_size) ==
  [chunk_size   |-> chunk_size,
   total_length |-> total_length,
   rank         |-> rank,
   world_size   |-> IF world_size <= 0 THEN 1 ELSE world_size,
   cursor       |-> 0]

\* global_index = rank + cursor * world_size, in size_t.
GlobalIndex(c) == Wrap(c.rank + c.cursor * c.world_size)

\* begin = global_index * chunk_size, in size_t.
ChunkBegin(c) == Wrap(GlobalIndex(c) * c.chunk_size)

\* finish = begin + chunk_size, clamped to total_length.
ChunkFinish(c) ==
  LET finish == Wrap(ChunkBegin(c) + c.chunk_size)
  IN  IF finish > c.total_length THEN c.total_length ELSE finish

\* The return value without the test of chunk_size against 0.
ChunkAvailableUnguarded(c) == ChunkBegin(c) < c.total_length

\* The return value of chunk_cursor_next: 1 (TRUE) or 0 (FALSE).
ChunkAvailable(c) == c.chunk_size # 0 /\ ChunkBegin(c) < c.total_length

\* chunk_cursor_next: the outputs and the cursor afterwards.
chunk_cursor_next(c) ==
  IF ChunkAvailable(c)
    THEN [ok          |-> TRUE,
          start       |-> ChunkBegin(c),
          end         |-> ChunkFinish(c),
          chunk_index |-> GlobalIndex(c),
          next        |-> [c EXCEPT !.cursor = Wrap(c.cursor + 1)]]
    ELSE [ok |-> FALSE, start |-> 0, end |-> 0, chunk_index |-> 0, next |-> c]

(***************************************************************************)
(* api_client.c: api_client_send                                           *)
(***************************************************************************)
\* ApiClientError (api_client.h).
ErrNone == "NONE"
ErrPermanent == "PERMANENT"
ErrHttp == "HTTP"
ErrNetwork == "NETWORK"

\* The HTTP statuses curl may report; 0 when no response line was read.
StatusCodes == {0, 199, 200, 204, 299, 300, 404, 408, 429, 499, 500, 503}

\* A delay near the top of long: 1.2 * 2^(LongBits - 2).
HugeDelay == 2 ^ (LongBits - 2) + (2 ^ (LongBits - 2)) \div 5

\* The delays (ms) --retry-delay-ms may give: parse_long_value takes any long.
RetryDelays == {-1, 0, 50, 100, 500, HugeDelay}

\* DEEPSEEK_DEFAULT_RETRY_DELAY_MS
DefaultRetryDelay == 500

\* config_finalize: a negative retry_delay_ms becomes the default.
FinalizeRetryDelay(retry_delay_ms) ==
  IF retry_delay_ms < 0 THEN DefaultRetryDelay ELSE retry_delay_ms

\* chunk 'len' exceeds max_request_bytes.
Oversized(len, max_request_bytes) == len > max_request_bytes

EntryDryRunFirst(cfg, len) ==
  IF cfg.dry_run THEN "dry_run"
  ELSE IF Oversized(len, cfg.max_request_bytes) THEN "oversized"
  ELSE "request"

\* The checks before the retry loop, in the order the code makes them.
EntryOutcome(cfg, len) ==
  IF Oversized(len, cfg.max_request_bytes) THEN "oversized"
  ELSE IF cfg.dry_run THEN "dry_run"
  ELSE "request"

AttemptLimitOffByOne(max_retries) == IF max_retries < 0 THEN 1 ELSE max_retries + 1

\* attempts = max_retries < 0 ? 0 : max_retries
AttemptLimit(max_retries) == IF max_retries < 0 THEN 0 ELSE max_retries

BaseDelayFloored(retry_delay_ms) == IF retry_delay_ms >= 100 THEN retry_delay_ms ELSE 100

\* base_delay = retry_delay_ms > 0 ? retry_delay_ms : 100
BaseDelay(retry_delay_ms) == IF retry_delay_ms > 0 THEN retry_delay_ms ELSE 100

\* max_delay = base_delay * 8, or base_delay should the product come out smaller.
MaxDelay(base_delay) ==
  LET max_delay == WrapLong(base_delay * 8)
  IN  IF max_delay < base_delay THEN base_delay ELSE max_delay

\* The delay after one sleep: doubled up to max_delay.
NextDelay(delay, max_delay) ==
  IF delay < max_delay
    THEN LET next == WrapLong(delay * 2)
         IN  IF next > max_delay THEN max_delay ELSE next
    ELSE delay

\* rc == CURLE_OK && 200 <= status_code < 300
IsSuccess(rc_ok, status) == rc_ok /\ status >= 200 /\ status < 300

TransientWithout429(rc_ok, status) ==
  \/ ~rc_ok
  \/ rc_ok /\ (status = 0 \/ status = 408 \/ status >= 500)

\* transient = network_error || http_transient
Transient(rc_ok, status) ==
  \/ ~rc_ok
  \/ rc_ok /\ (status = 0 \/ status = 408 \/ status = 429 \/ status >= 500)

\* final_error = transient ? NETWORK : HTTP
Classify(rc_ok, status) == IF Transient(rc_ok, status) THEN ErrNetwork ELSE ErrHttp

StopsAtLimitOnly(attempt, attempts, transient) == attempt >= attempts

\* if (attempt >= attempts || !transient) break;
StopsRetrying(attempt, attempts, transient) == attempt >= attempts \/ ~transient

\* The body api_client_send writes in dry-run mode for chunk_index.
DryRunBody(chunk_index) == [chunk |-> chunk_index, status |-> "dry-run"]

\* No attempt has been made yet.
NoAttempt == [rc_ok |-> TRUE, status |-> -1]

(***************************************************************************)
(* State.                                                                  *)
(***************************************************************************)
VARIABLES
  \* SpecCursor
  cursors,      \* rank -> ChunkCursor
  returned,     \* the chunks returned so far: [rank, chunk_index, start, end]
  exhausted,    \* the ranks whose cursor has returned 0
  \* SpecSend
  sendcfg,      \* the ProgramConfig fields and arguments of the call
  send,         \* the locals of api_client_send and what it has done so far
  \* Spec
  run,          \* what is fixed for the execution: mode, world size, MPI, config
  rk,           \* rank -> the rank's position, its config copy and its locals
  sent,         \* rank -> the api_client_send calls of the current run, in order
  bcastq,       \* rank -> the MPI_Bcast values of root 0 the rank has yet to take
  reduceq,      \* rank -> the MPI_Reduce contribution root 0 has yet to take
  chan,         \* rank -> the TAG_LEN/TAG_DATA messages to rank 0 yet to be received
  summaries,    \* the cluster summaries rank 0 has logged: <<processed, failures, network_failures>>
  repl,         \* rank 0's REPL session: history, repl_response, runs started
  \* SpecRepl
  session,      \* rank 0's locals in run_repl_session and the composites it built
  \* SpecGather
  gather,       \* rank 0's ProgramConfig around gather_payload_root, and the capture
  \* SpecProvider
  pconf,        \* the provider fields of a ProgramConfig while options are applied
  \* SpecJson
  json,         \* a byte string, its json_escape and the unescaping of that
  \* SpecSentinel
  exitq         \* a captured prompt and what repl_should_exit makes of it

cvars == <<cursors, returned, exhausted>>
svars == <<sendcfg, send>>
mvars == <<run, rk, sent, bcastq, reduceq, chan, summaries, repl>>
rvars == <<session>>
gvars == <<gather>>
pvars == <<pconf>>
jvars == <<json>>
evars == <<exitq>>

vars == <<cursors, returned, exhausted, sendcfg, send,
          run, rk, sent, bcastq, reduceq, chan, summaries, repl, session,
          gather, pconf, json, exitq>>

(***************************************************************************)
(* main.c, app_config.c: the configuration, the orchestrator's decisions.  *)
(***************************************************************************)
\* DEEPSEEK_MIN_CHUNK_SIZE
MinChunkSize == 128

\* config_finalize: chunk_size is raised to the minimum.
FinalizeChunkSize(chunk_size) ==
  IF chunk_size < MinChunkSize THEN MinChunkSize ELSE chunk_size

\* config_finalize: max_request_bytes below chunk_size becomes chunk_size * 2.
FinalizeMaxRequest(max_request_bytes, chunk_size) ==
  IF max_request_bytes < chunk_size THEN Wrap(chunk_size * 2) ELSE max_request_bytes

\* config_finalize: a negative network_retry_limit becomes 0.
FinalizeRetryLimit(limit) == IF limit < 0 THEN 0 ELSE limit

ResetBudgetOffByOne(limit) == IF limit < 0 THEN 1 ELSE limit + 1

\* process_chunks: remaining_resets at the start of every chunk.
ResetBudget(limit) == IF limit < 0 THEN 0 ELSE limit

ShouldResetOnAnyFailure(result, remaining_resets) ==
  result # ErrNone /\ remaining_resets > 0

\* process_chunks: api_error == NETWORK && remaining_resets > 0
ShouldReset(result, remaining_resets) ==
  result = ErrNetwork /\ remaining_resets > 0

\* The results api_client_send can return: success (NONE) or a failure type.
SendResults == {ErrNone, ErrNetwork, ErrHttp, ErrPermanent}

SendResultsIgnoringDryRun(dry_run, len, max_request_bytes) ==
  IF Oversized(len, max_request_bytes) THEN {ErrPermanent} ELSE SendResults

\* The results one api_client_send of 'len' bytes can return under a
\* configuration: the size check and the dry-run shortcut decide alone.
SendResultsFor(dry_run, len, max_request_bytes) ==
  LET outcome == EntryOutcome([dry_run |-> dry_run,
                               max_request_bytes |-> max_request_bytes], len)
  IN  IF outcome = "oversized" THEN {ErrPermanent}
      ELSE IF outcome = "dry_run" THEN {ErrNone}
      ELSE SendResults

\* What the response buffer holds after a send that returned 0.
ResponseOf(dry_run, chunk_index) ==
  IF dry_run THEN DryRunBody(chunk_index) ELSE [chunk |-> -1, status |-> "backend"]

\* A send that failed leaves no response to use.
NoResponse == [chunk |-> -1, status |-> "none"]

\* The lengths gather_payload_root can capture; 0 stands for a failed or
\* empty capture.
PayloadLens == {11} \cup {k * 100 : k \in 0 .. MaxLenSteps}

\* The chunk sizes and request limit given on the command line.
RawChunkSizes == {4, 200}
RawMaxRequest == MinChunkSize

NoChunk == [chunk_index |-> 0, start |-> 0, end |-> 0]

\* "%zu" and "%d" of a value that is not negative: its decimal digits.
DigitChar(d) == <<"0", "1", "2", "3", "4", "5", "6", "7", "8", "9">>[d + 1]

RECURSIVE Decimal(_)
Decimal(n) ==
  IF n < 10 THEN <<DigitChar(n)>> ELSE Decimal(n \div 10) \o <<DigitChar(n % 10)>>

\* "%06zu": the digits, with zeros in front up to a width of six.
RECURSIVE ZeroPad6(_)
ZeroPad6(digits) == IF Len(digits) >= 6 THEN digits ELSE ZeroPad6(<<"0">> \o digits)

ResponsePathOfRank(chunk_index, rank) == <<"chunk-", "-r">> \o Decimal(rank)

\* persist_response_to_disk 345-351: "chunk-%06zu-r%d.json" under the
\* response directory, which is the same for every rank.
ResponsePath(chunk_index, rank) ==
  <<"chunk-">> \o ZeroPad6(Decimal(chunk_index)) \o <<"-r">> \o Decimal(rank)
    \o <<".json">>

\* No file.
NoPath == <<>>

\* process_chunks 576-580, persist_response_to_disk 333-336: the file a
\* send's response is written to: none unless the send succeeded and
\* response files are enabled.  (The directory can be made, the file can be
\* opened and the body is not empty.)
PersistedPath(result, chunk_index, rank) ==
  IF result = ErrNone /\ run.response_files_enabled
    THEN ResponsePath(chunk_index, rank) ELSE NoPath

\* The length of a backend's response body in this model.
BackendBodyLen == 16

\* api_client_send 281-287: the length of {"chunk":%zu,"status":"dry-run"}.
BodyLen(dry_run, chunk_index) ==
  IF dry_run THEN 29 + Len(Decimal(chunk_index)) ELSE BackendBodyLen

\* process_chunks 582-588: what one successful chunk adds to the response
\* stream: "----- chunk %zu (rank %d) -----\n", the body, "\n\n".
StreamEntry(dry_run, chunk_index, rank) ==
  [chunk |-> chunk_index, rank |-> rank,
   len |-> 27 + Len(Decimal(chunk_index)) + Len(Decimal(rank))
             + BodyLen(dry_run, chunk_index) + 2]

\* The length of a response stream.
RECURSIVE StreamLen(_)
StreamLen(stream) ==
  IF stream = <<>> THEN 0 ELSE Head(stream).len + StreamLen(Tail(stream))

\* Pieces of REPL text: what a piece is, the number it carries, its bytes.
UserHeader(turn) ==
  [kind |-> "User #%zu:\n", n |-> turn, len |-> 8 + Len(Decimal(turn))]

AssistantHeader(turn) ==
  [kind |-> "Assistant #%zu:\n", n |-> turn, len |-> 13 + Len(Decimal(turn))]

PromptText(turn, len) == [kind |-> "prompt", n |-> turn, len |-> len]

ReplyText(turn, len) == [kind |-> "reply", n |-> turn, len |-> len]

Placeholder == [kind |-> "(no response available)", n |-> 0, len |-> 23]

Newline == [kind |-> "\n", n |-> 0, len |-> 1]

RECURSIVE TextLen(_)
TextLen(text) == IF text = <<>> THEN 0 ELSE Head(text).len + TextLen(Tail(text))

build_repl_payload_fresh(history, prompt, turn) == <<UserHeader(turn), prompt, Newline>>

\* build_repl_payload: the history and "\n" if there is a history, then
\* "User #<turn>:\n", the prompt, "\n".
build_repl_payload(history, prompt, turn) ==
  (IF history # <<>> THEN history \o <<Newline>> ELSE <<>>)
    \o <<UserHeader(turn), prompt, Newline>>

\* run_repl_session 777-787: the user turn, then the assistant's reply or
\* the placeholder, appended to the history.
AppendTurn(history, turn, prompt, exec_rc, reply_len) ==
  history \o <<UserHeader(turn), prompt, Newline, AssistantHeader(turn)>>
    \o (IF exec_rc = 0 /\ reply_len > 0
          THEN <<ReplyText(turn, reply_len), Newline, Newline>>
          ELSE <<Placeholder, Newline, Newline>>)

\* The task counts --tasks may give; 0 stands for the option left out.
TaskTargets == {0, 2}

AdjustChunkSizeUncapped(tasks, len, chunk_size) ==
  IF tasks = 0 \/ len = 0 THEN chunk_size
  ELSE LET chunk == len \div tasks + (IF len % tasks # 0 THEN 1 ELSE 0)
       IN  IF chunk < MinChunkSize THEN MinChunkSize ELSE chunk

\* maybe_adjust_chunk_from_tasks: the chunk size rank 0 works out from a
\* captured payload of 'len' bytes: ceil(len / tasks), at least the minimum,
\* at most len.  (auto_scale_mode is none.)
AdjustChunkSize(tasks, len, chunk_size) ==
  IF tasks = 0 \/ len = 0 THEN chunk_size
  ELSE LET chunk   == len \div tasks + (IF len % tasks # 0 THEN 1 ELSE 0)
           floored == IF chunk < MinChunkSize THEN MinChunkSize ELSE chunk
       IN  IF floored > len THEN len ELSE floored

\* maybe_adjust_chunk_from_tasks: max_request_bytes is raised to the chunk.
AdjustMaxRequest(tasks, len, chunk_size, max_request_bytes) ==
  IF tasks = 0 \/ len = 0 THEN max_request_bytes
  ELSE IF max_request_bytes < AdjustChunkSize(tasks, len, chunk_size)
    THEN AdjustChunkSize(tasks, len, chunk_size)
  ELSE max_request_bytes

\* gather_payload_root 210-214 on rank 0: the configuration after a capture.
AfterCapture(w, r, len) ==
  IF r = 0
    THEN [w EXCEPT !.chunk_size = AdjustChunkSize(run.target_tasks, len, w.chunk_size),
                   !.max_request_bytes =
                     AdjustMaxRequest(run.target_tasks, len, w.chunk_size,
                                      w.max_request_bytes)]
    ELSE w

(***************************************************************************)
(* api_client_init.  A key is absent (a null pointer), the empty string or *)
(* a value; 'env' is what getenv gives for config->api_key_env, absent     *)
(* when the variable is unset or no variable is named.                     *)
(***************************************************************************)
NoKey == "(null)"
KeyValues == {NoKey, "", "sk-key"}
NoError == "none"
ErrKeyExpected == "API key expected"
ErrCopyKey == "Unable to copy API key"
ErrCurlInit == "curl init failed"

\* api_client_init 237-240: the explicit key, else the environment.
ClientKey(explicit_api_key, env) ==
  IF explicit_api_key # NoKey THEN explicit_api_key ELSE env

api_client_init_keyed(explicit_api_key, env, dry_run, strdup_ok, curl_ok) ==
  LET key == ClientKey(explicit_api_key, env) IN
  IF key = NoKey
    THEN [rc |-> -1, api_key |-> NoKey, error |-> ErrKeyExpected]
  ELSE IF ~strdup_ok
    THEN [rc |-> -1, api_key |-> NoKey, error |-> ErrCopyKey]
  ELSE IF ~curl_ok
    THEN [rc |-> -1, api_key |-> NoKey, error |-> ErrCurlInit]
  ELSE [rc |-> 0, api_key |-> key, error |-> NoError]

\* api_client_init 230-259: 0 and the client's copy of the key, or -1 and
\* the error text; strdup and curl_global_init may fail.
api_client_init(explicit_api_key, env, dry_run, strdup_ok, curl_ok) ==
  LET key == ClientKey(explicit_api_key, env) IN
  IF key = NoKey /\ ~dry_run
    THEN [rc |-> -1, api_key |-> NoKey, error |-> ErrKeyExpected]
  ELSE IF key # NoKey /\ ~strdup_ok
    THEN [rc |-> -1, api_key |-> NoKey, error |-> ErrCopyKey]
  ELSE IF ~curl_ok
    THEN [rc |-> -1, api_key |-> NoKey, error |-> ErrCurlInit]
  ELSE [rc |-> 0, api_key |-> key, error |-> NoError]

CaptureReadyAlways(r, len) == IF r = 0 THEN 1 ELSE 0

\* main 855-858 and run_repl_session 736-747: 'ready' is 1 only on rank 0 and
\* only when gather_payload_root returned 0, which takes a non-empty payload.
CaptureReady(r, len) == IF r = 0 /\ len > 0 THEN 1 ELSE 0

\* A rank at the start of main(), after cli_parse_args.
RankInit(r, repl_mode, ws, chunk_size) ==
  [pc |-> IF repl_mode THEN "repl_top" ELSE "gather",
   wait |-> "none",
   chunk_size |-> FinalizeChunkSize(chunk_size),
   max_request_bytes |-> FinalizeMaxRequest(RawMaxRequest, FinalizeChunkSize(chunk_size)),
   payload_len |-> 0, prompt_len |-> 0,
   ready |-> 0, running |-> 1, exec_rc |-> 0, turn |-> 1,
   entered |-> FALSE,
   cursor |-> chunk_cursor_init(0, 0, r, ws),
   client_ready |-> FALSE, response_ready |-> FALSE, stream_enabled |-> FALSE,
   aborted |-> FALSE, remaining_resets |-> 0, chunk |-> NoChunk,
   processed |-> 0, failures |-> 0, network_failures |-> 0,
   response_stream |-> <<>>, source |-> 1, inits |-> 0, cleanups |-> 0,
   offset |-> 0, buffer |-> <<>>, bcasts |-> <<>>]

Ranks == 0 .. run.world_size - 1

\* The head of the chunk loop: client_ready && !aborted && chunk_cursor_next().
NextChunk(w) ==
  IF w.client_ready /\ ~w.aborted
    THEN LET res == chunk_cursor_next(w.cursor) IN
         IF res.ok
           THEN [w EXCEPT !.cursor = res.next,
                          !.chunk = [chunk_index |-> res.chunk_index,
                                     start |-> res.start, end |-> res.end],
                          !.remaining_resets = ResetBudget(run.network_retry_limit),
                          !.pc = "send"]
           ELSE [w EXCEPT !.pc = "reduce"]
    ELSE [w EXCEPT !.pc = "reduce"]

\* The end of one chunk: processed++ and the loop head again.
ChunkDone(w) == NextChunk([w EXCEPT !.processed = @ + 1])

HandleSendWaiting(w, result, reinit_ok) == [w EXCEPT !.wait = "reduce"]

\* The inner loop with a failed rebuild counted as a failure of the chunk.
HandleSendCountingAbort(w, result, reinit_ok) ==
  IF result = ErrNone
    THEN ChunkDone([w EXCEPT !.response_stream =
                       IF w.stream_enabled
                         THEN Append(@, StreamEntry(run.dry_run, w.chunk.chunk_index,
                                                    w.cursor.rank))
                         ELSE @])
  ELSE IF ShouldReset(result, w.remaining_resets)
    THEN IF reinit_ok
           THEN [w EXCEPT !.remaining_resets = @ - 1, !.cleanups = @ + 1,
                          !.inits = @ + 1, !.client_ready = TRUE]
           ELSE [w EXCEPT !.remaining_resets = @ - 1, !.cleanups = @ + 1,
                          !.client_ready = FALSE, !.failures = @ + 1,
                          !.network_failures = @ + 1,
                          !.aborted = TRUE, !.pc = "reduce"]
  ELSE ChunkDone([w EXCEPT !.failures = @ + 1,
                           !.network_failures =
                             IF result = ErrNetwork THEN @ + 1 ELSE @])

\* The body of the inner loop for one api_client_send result.
HandleSend(w, result, reinit_ok) ==
  IF result = ErrNone
    THEN ChunkDone([w EXCEPT !.response_stream =
                       IF w.stream_enabled
                         THEN Append(@, StreamEntry(run.dry_run, w.chunk.chunk_index,
                                                    w.cursor.rank))
                         ELSE @])
  ELSE IF ShouldReset(result, w.remaining_resets)
    THEN IF reinit_ok
           THEN [w EXCEPT !.remaining_resets = @ - 1, !.cleanups = @ + 1,
                          !.inits = @ + 1, !.client_ready = TRUE]
           ELSE [w EXCEPT !.remaining_resets = @ - 1, !.cleanups = @ + 1,
                          !.client_ready = FALSE,
                          !.aborted = TRUE, !.pc = "reduce"]
  ELSE ChunkDone([w EXCEPT !.failures = @ + 1,
                           !.network_failures =
                             IF result = ErrNetwork THEN @ + 1 ELSE @])

(***************************************************************************)
(* MPI on MPI_COMM_WORLD.  A collective or a standard-mode send may return *)
(* as soon as the data is buffered (run.mpi_eager) or only once the other  *)
(* side has taken it; MPI leaves that to the implementation.               *)
(***************************************************************************)
CanBcast(r) ==
  IF r = 0 THEN \A q \in DOMAIN bcastq : Len(bcastq[q]) < MaxBuffered
  ELSE bcastq[r] # <<>>

BcastInOwn(r, mine) == mine

\* The value a rank holds after MPI_Bcast from root 0.
BcastIn(r, mine) == IF r = 0 THEN mine ELSE Head(bcastq[r])

SegmentLenWhole(remaining) == remaining

\* broadcast_payload: the count of one MPI_Bcast, an int.
SegmentLen(remaining) == IF remaining > IntMax THEN IntMax ELSE remaining

BcastQ(r, mine) ==
  IF r = 0 THEN [q \in DOMAIN bcastq |-> Append(bcastq[q], mine)]
  ELSE [bcastq EXCEPT ![r] = Tail(@)]

\* What the posting side waits for after handing its data over.
WaitAfter(r, kind) ==
  IF ~run.mpi_eager /\ run.world_size > 1 /\ ((kind = "bcast") <=> (r = 0))
    THEN kind ELSE "none"

Running(r) == r \in DOMAIN rk /\ rk[r].wait = "none"

(***************************************************************************)
(* SpecCursor: each rank of a world initialises a cursor over the same     *)
(* (chunk_size, total_length) and calls chunk_cursor_next until it         *)
(* returns 0.                                                              *)
(***************************************************************************)
CursorChunkSizes == (0 .. MaxSmallChunk) \cup {SizeMod \div 2, SizeMod \div 2 + 1}

CursorIdle == cursors = <<>> /\ returned = <<>> /\ exhausted = {}

SendIdle == sendcfg = <<>> /\ send = <<>>

MainIdle ==
  /\ run = <<>> /\ rk = <<>> /\ sent = <<>> /\ bcastq = <<>>
  /\ reduceq = <<>> /\ chan = <<>> /\ summaries = <<>> /\ repl = <<>>

SessionIdle == session = <<>>

GatherIdle == gather = <<>>

ProviderIdle == pconf = <<>>

JsonIdle == json = <<>>

ExitIdle == exitq = <<>>

CursorInit ==
  /\ GatherIdle
  /\ ProviderIdle
  /\ JsonIdle
  /\ ExitIdle
  /\ SendIdle
  /\ MainIdle
  /\ SessionIdle
  /\ \E ws \in 1 .. MaxWorld, cs \in CursorChunkSizes, len \in 0 .. MaxTotal :
       cursors = [r \in 0 .. ws - 1 |-> chunk_cursor_init(cs, len, r, ws)]
  /\ returned = <<>>
  /\ exhausted = {}

CursorNext(r) ==
  /\ r \in DOMAIN cursors
  /\ r \notin exhausted
  /\ cursors[r].cursor < MaxCalls
  /\ LET res == chunk_cursor_next(cursors[r])
     IN  /\ cursors' = [cursors EXCEPT ![r] = res.next]
         /\ IF res.ok
              THEN /\ returned' = Append(returned,
                                         [rank |-> r, chunk_index |-> res.chunk_index,
                                          start |-> res.start, end |-> res.end])
                   /\ UNCHANGED exhausted
              ELSE /\ exhausted' = exhausted \cup {r}
                   /\ UNCHANGED returned
  /\ UNCHANGED <<svars, mvars, rvars, gvars, pvars, jvars, evars>>

NextCursor == \E r \in 0 .. MaxWorld - 1 : CursorNext(r)

SpecCursor == CursorInit /\ [][NextCursor]_vars

\* Every rank's cursor has returned 0.
AllExhausted == exhausted = DOMAIN cursors

\* The bytes of [0, total_length) covered by the k-th returned chunk.
Bytes(k) == returned[k].start .. returned[k].end - 1

\* C1: for chunk_size > 0, once every rank has driven its cursor until it
\* returned 0, the returned ranges are pairwise disjoint, their union is
\* [0, total_length), and no global chunk index was returned twice.
C1_PartitionExact ==
  (AllExhausted /\ cursors[0].chunk_size > 0) =>
    /\ \A i, j \in 1 .. Len(returned) :
         i # j => /\ Bytes(i) \cap Bytes(j) = {}
                  /\ returned[i].chunk_index # returned[j].chunk_index
    /\ UNION {Bytes(k) : k \in 1 .. Len(returned)} = 0 .. cursors[0].total_length - 1

(***************************************************************************)
(* SpecSend: one call of api_client_send on an initialised client.  The    *)
(* configuration and the arguments are drawn at the start, the             *)
(* configuration as the command line gave it or as config_finalize left    *)
(* it; every attempt draws what the allocation and the transfer do.        *)
(***************************************************************************)
SendChunkLens == {1, 128, 200}
SendMaxRequest == {128, 256}

SendInit ==
  /\ GatherIdle
  /\ ProviderIdle
  /\ JsonIdle
  /\ ExitIdle
  /\ CursorIdle
  /\ MainIdle
  /\ SessionIdle
  /\ \E mr \in -1 .. MaxRetries, rd \in RetryDelays, finalized \in BOOLEAN,
        mq \in SendMaxRequest, dr \in BOOLEAN, len \in SendChunkLens,
        ci \in 0 .. MaxSendIndex :
       sendcfg = [max_retries |-> mr, configured_delay |-> rd,
                  retry_delay_ms |-> IF finalized THEN FinalizeRetryDelay(rd) ELSE rd,
                  max_request_bytes |-> mq,
                  dry_run |-> dr, chunk_len |-> len, chunk_index |-> ci]
  /\ send = [pc |-> "entry", attempt |-> 0, attempts |-> 0, delay |-> 0, max_delay |-> 0,
             final_error |-> ErrNone, error_type |-> ErrNone, rc |-> 0,
             posts |-> 0, sleeps |-> <<>>, last |-> NoAttempt, response |-> "unset"]

\* Lines 264-309: the size check, the dry-run shortcut, the request body and
\* the retry parameters.
SendEntry ==
  /\ send.pc = "entry"
  /\ \E payload_ok \in BOOLEAN :
       LET outcome == EntryOutcome(sendcfg, sendcfg.chunk_len) IN
       send' =
         IF outcome = "oversized"
           THEN [send EXCEPT !.pc = "done", !.rc = -1, !.error_type = ErrPermanent]
         ELSE IF outcome = "dry_run"
           THEN [send EXCEPT !.pc = "done", !.rc = 0,
                             !.response = DryRunBody(sendcfg.chunk_index)]
         ELSE IF ~payload_ok
           THEN [send EXCEPT !.pc = "done", !.rc = -1, !.error_type = ErrPermanent]
         ELSE [send EXCEPT !.pc = "loop",
                           !.attempts = AttemptLimit(sendcfg.max_retries),
                           !.delay = BaseDelay(sendcfg.retry_delay_ms),
                           !.max_delay = MaxDelay(BaseDelay(sendcfg.retry_delay_ms)),
                           !.final_error = ErrHttp]
  /\ UNCHANGED <<sendcfg, cvars, mvars, rvars, gvars, pvars, jvars, evars>>

\* Lines 311-438: one turn of the retry loop, or the exit from it.
SendAttempt ==
  /\ send.pc = "loop"
  /\ \E handle_ok \in BOOLEAN, rc_ok \in BOOLEAN, status \in StatusCodes :
       send' =
         IF ~(send.attempt <= send.attempts)
           THEN [send EXCEPT !.pc = "done", !.rc = -1, !.error_type = send.final_error]
         ELSE IF ~handle_ok
           THEN [send EXCEPT !.pc = "done", !.rc = -1, !.error_type = ErrPermanent,
                             !.response = "empty"]
         ELSE IF IsSuccess(rc_ok, status)
           THEN [send EXCEPT !.pc = "done", !.rc = 0, !.posts = @ + 1,
                             !.last = [rc_ok |-> rc_ok, status |-> status],
                             !.response = "body"]
         ELSE IF StopsRetrying(send.attempt, send.attempts, Transient(rc_ok, status))
           THEN [send EXCEPT !.pc = "done", !.rc = -1, !.posts = @ + 1,
                             !.last = [rc_ok |-> rc_ok, status |-> status],
                             !.final_error = Classify(rc_ok, status),
                             !.error_type = Classify(rc_ok, status),
                             !.response = "body"]
         ELSE [send EXCEPT !.posts = @ + 1,
                           !.last = [rc_ok |-> rc_ok, status |-> status],
                           !.final_error = Classify(rc_ok, status),
                           !.sleeps = Append(@, send.delay),
                           !.delay = NextDelay(send.delay, send.max_delay),
                           !.attempt = @ + 1,
                           !.response = "body"]
  /\ UNCHANGED <<sendcfg, cvars, mvars, rvars, gvars, pvars, jvars, evars>>

NextSend == SendEntry \/ SendAttempt

SpecSend == SendInit /\ [][NextSend]_vars

\* The classification the specification gives for a failed attempt.
ClaimedClass(l) ==
  IF ~l.rc_ok \/ l.status \in {0, 408, 429} \/ l.status >= 500 THEN ErrNetwork ELSE ErrHttp

\* The retry limit the specification names: max_retries, a negative one read as 0.
ClaimedRetries == IF sendcfg.max_retries < 0 THEN 0 ELSE sendcfg.max_retries

\* The call has returned failure after an attempt (not a PERMANENT abort).
SendFailedAfterAttempt ==
  send.pc = "done" /\ send.rc = -1 /\ send.error_type # ErrPermanent

\* C7: a failed attempt is classified NETWORK on a transport failure or a
\* status of 0, 408, 429 or >= 500 and HTTP on any other non-2xx status, and
\* the type a failed send reports is the classification of its last attempt.
C7_Classification ==
  /\ (send.posts > 0 /\ ~IsSuccess(send.last.rc_ok, send.last.status)) =>
       send.final_error = ClaimedClass(send.last)
  /\ SendFailedAfterAttempt =>
       /\ send.posts > 0
       /\ send.error_type = ClaimedClass(send.last)

C7_Witness ==
  /\ SendFailedAfterAttempt
  /\ send.last = [rc_ok |-> TRUE, status |-> 429]
  /\ send.error_type = ErrNetwork

\* C8 as stated: a send reports failure with type HTTP only once the retry
\* limit is exhausted, the HTTP-classified attempts having been retried.
C8_HttpRetriedToLimit ==
  (SendFailedAfterAttempt /\ send.error_type = ErrHttp) =>
    send.posts = ClaimedRetries + 1

\* C8 amended: an attempt classified HTTP is never retried; the call returns
\* failure with type HTTP right after it and sleeps no backoff for it.
C8_HttpNotRetried ==
  [][(/\ send.pc = "loop"
      /\ send'.posts = send.posts + 1
      /\ ~IsSuccess(send'.last.rc_ok, send'.last.status)
      /\ ClaimedClass(send'.last) = ErrHttp)
     => (/\ send'.pc = "done"
         /\ send'.rc = -1
         /\ send'.error_type = ErrHttp
         /\ send'.sleeps = send.sleeps)]_vars

C8_Witness ==
  /\ SendFailedAfterAttempt
  /\ send.error_type = ErrHttp
  /\ send.last = [rc_ok |-> TRUE, status |-> 404]
  /\ send.posts = 1
  /\ ClaimedRetries = 3
  /\ send.sleeps = <<>>

\* C9 as stated: when every attempt fails with a retryable error, at most
\* max_retries POSTs are issued.
C9_AtMostMaxRetriesPosts ==
  (SendFailedAfterAttempt /\ send.error_type = ErrNetwork) =>
    send.posts <= ClaimedRetries

\* C9 amended: a call issues at most max_retries + 1 POSTs (the first attempt
\* and max_retries retries), and exactly that many when every attempt fails
\* with a retryable error; it sleeps at most max_retries times.
C9_AtMostMaxRetriesPlusOne ==
  /\ send.posts <= ClaimedRetries + 1
  /\ Len(send.sleeps) <= ClaimedRetries
  /\ (SendFailedAfterAttempt /\ send.error_type = ErrNetwork) =>
       /\ send.posts = ClaimedRetries + 1
       /\ Len(send.sleeps) = ClaimedRetries

C9_Witness ==
  /\ SendFailedAfterAttempt
  /\ send.error_type = ErrNetwork
  /\ sendcfg.max_retries = 2
  /\ send.posts = 3

\* C10: a chunk longer than max_request_bytes fails as PERMANENT with no
\* POST and no backoff sleep, with dry_run set or not.
C10_OversizedPermanent ==
  (sendcfg.chunk_len > sendcfg.max_request_bytes) =>
    /\ send.pc # "loop"
    /\ send.posts = 0
    /\ send.sleeps = <<>>
    /\ send.pc = "done" =>
         /\ send.rc = -1
         /\ send.error_type = ErrPermanent
         /\ send.response = "unset"

C10_Witness ==
  /\ send.pc = "done"
  /\ sendcfg.chunk_len > sendcfg.max_request_bytes
  /\ sendcfg.dry_run
  /\ send.error_type = ErrPermanent

\* The k-th delay of a backoff that starts at d, doubles and stops at 8 * d.
ClaimedDelay(d, k) == IF k >= 4 THEN 8 * d ELSE d * 2 ^ (k - 1)

\* C11: within one call with base delay D (the first delay slept) the
\* delays slept before successive retries are D, 2D, 4D, 8D, 8D, ...: each
\* is at least the one before it and none exceeds 8 * D.
C11_BackoffDoublesToCap ==
  \A k \in DOMAIN send.sleeps :
    /\ send.sleeps[k] = ClaimedDelay(send.sleeps[1], k)
    /\ send.sleeps[k] <= 8 * send.sleeps[1]
    /\ k > 1 => send.sleeps[k] >= send.sleeps[k - 1]

\* The base delay the specification gives: retry_delay_ms floored at 100 ms.
ClaimedBase == IF sendcfg.retry_delay_ms < 100 THEN 100 ELSE sendcfg.retry_delay_ms

\* C12 as stated: the first backoff delay is retry_delay_ms, but 100 ms for
\* every retry_delay_ms below 100.
C12_BaseFlooredAt100 ==
  send.sleeps # <<>> => send.sleeps[1] = ClaimedBase

\* C12: the first backoff delay is the retry_delay_ms the call finds in its
\* configuration when that is positive, and 100 ms when it is 0 or
\* negative; config_finalize turns a negative delay into 500 and leaves 0
\* and the positive ones alone.
C12_BaseIsPositiveDelayOr100 ==
  /\ send.sleeps # <<>> =>
       send.sleeps[1] = IF sendcfg.retry_delay_ms > 0 THEN sendcfg.retry_delay_ms ELSE 100
  /\ sendcfg.retry_delay_ms \in
       {sendcfg.configured_delay,
        IF sendcfg.configured_delay < 0 THEN 500 ELSE sendcfg.configured_delay}

\* A call configured with 50 ms slept 50 ms before its first retry.
C12_Witness ==
  /\ sendcfg.retry_delay_ms = 50
  /\ Len(send.sleeps) >= 2
  /\ send.sleeps[1] = 50
  /\ send.sleeps[2] = 100

(***************************************************************************)
(* Spec: main() on every rank of MPI_COMM_WORLD.                           *)
(***************************************************************************)
Init ==
  /\ GatherIdle
  /\ ProviderIdle
  /\ JsonIdle
  /\ ExitIdle
  /\ CursorIdle
  /\ SendIdle
  /\ SessionIdle
  /\ \E repl_mode \in BOOLEAN, ws \in 1 .. MaxWorld, eager \in BOOLEAN,
        limit \in -1 .. MaxResets, cs \in RawChunkSizes, dry_run \in BOOLEAN,
        tasks \in TaskTargets, files \in BOOLEAN :
       /\ run = [repl_mode |-> repl_mode, world_size |-> ws, mpi_eager |-> eager,
                 network_retry_limit |-> FinalizeRetryLimit(limit),
                 chunk_size_option |-> cs, dry_run |-> dry_run,
                 target_tasks |-> tasks, response_files_enabled |-> files]
       /\ rk = [r \in 0 .. ws - 1 |-> RankInit(r, repl_mode, ws, cs)]
       /\ sent = [r \in 0 .. ws - 1 |-> <<>>]
       /\ bcastq = [r \in 1 .. ws - 1 |-> <<>>]
       /\ reduceq = [r \in 1 .. ws - 1 |-> <<>>]
       /\ chan = [r \in 1 .. ws - 1 |-> <<>>]
  /\ summaries = <<>>
  /\ repl = [history |-> <<>>, repl_response |-> <<>>, runs |-> 0]

\* main.c 854-868: the one-shot branch.  Only rank 0 gathers a payload, and
\* 'ready' stays 0 on every other rank.
GatherOneShot(r) ==
  /\ Running(r)
  /\ rk[r].pc = "gather"
  /\ \E len \in PayloadLens :
       /\ r # 0 => len = 0
       /\ LET ready == CaptureReady(r, len) IN
          rk' = [rk EXCEPT ![r] =
                   [AfterCapture(@, r, len) EXCEPT
                      !.ready = ready,
                      !.payload_len = len,
                      !.pc = IF ready = 1 THEN "ep_ready" ELSE "complete"]]
  /\ UNCHANGED <<run, sent, bcastq, reduceq, chan, summaries, repl, cvars, svars, rvars, gvars, pvars, jvars, evars>>

\* Where execute_payload returns to.
AfterExecute == IF run.repl_mode THEN "repl_after" ELSE "complete"

\* execute_payload 668-680: the readiness flag.
EpReady(r) ==
  /\ Running(r)
  /\ rk[r].pc = "ep_ready"
  /\ CanBcast(r)
  /\ LET mine  == IF r = 0 /\ rk[r].payload_len > 0 THEN 1 ELSE 0
         ready == BcastIn(r, mine)
     IN  /\ bcastq' = BcastQ(r, mine)
         /\ rk' = [rk EXCEPT ![r].wait = WaitAfter(r, "bcast"),
                             ![r].bcasts = <<"ready">>,
                             ![r].entered = FALSE,
                             ![r].exec_rc = IF ready = 1 THEN 0 ELSE -1,
                             ![r].payload_len = IF ready = 1 THEN @ ELSE 0,
                             ![r].pc = IF ready = 1 THEN "ep_chunk" ELSE AfterExecute]
         /\ repl' = IF r = 0 /\ ready = 1 THEN [repl EXCEPT !.runs = @ + 1] ELSE repl
  /\ sent' = [sent EXCEPT ![r] = <<>>]
  /\ UNCHANGED <<run, reduceq, chan, summaries, cvars, svars, rvars, gvars, pvars, jvars, evars>>

\* execute_payload 682-684.
EpChunkSize(r) ==
  /\ Running(r)
  /\ rk[r].pc = "ep_chunk"
  /\ CanBcast(r)
  /\ bcastq' = BcastQ(r, rk[r].chunk_size)
  /\ rk' = [rk EXCEPT ![r].wait = WaitAfter(r, "bcast"),
                      ![r].bcasts = Append(@, "chunk_size"),
                      ![r].chunk_size = BcastIn(r, rk[r].chunk_size),
                      ![r].pc = "ep_maxreq"]
  /\ UNCHANGED <<run, sent, reduceq, chan, summaries, repl, cvars, svars, rvars, gvars, pvars, jvars, evars>>

\* execute_payload 686-688.
EpMaxRequest(r) ==
  /\ Running(r)
  /\ rk[r].pc = "ep_maxreq"
  /\ CanBcast(r)
  /\ bcastq' = BcastQ(r, rk[r].max_request_bytes)
  /\ rk' = [rk EXCEPT ![r].wait = WaitAfter(r, "bcast"),
                      ![r].bcasts = Append(@, "max_request_bytes"),
                      ![r].max_request_bytes = BcastIn(r, rk[r].max_request_bytes),
                      ![r].pc = "ep_len"]
  /\ UNCHANGED <<run, sent, reduceq, chan, summaries, repl, cvars, svars, rvars, gvars, pvars, jvars, evars>>

\* execute_payload 690-704: the payload length; the other ranks allocate
\* (the allocation succeeds).
EpLength(r) ==
  /\ Running(r)
  /\ rk[r].pc = "ep_len"
  /\ CanBcast(r)
  /\ LET mine == IF r = 0 THEN rk[r].payload_len ELSE 0 IN
     /\ bcastq' = BcastQ(r, mine)
     /\ rk' = [rk EXCEPT ![r].wait = WaitAfter(r, "bcast"),
                         ![r].bcasts = Append(@, "payload_len"),
                         ![r].payload_len = BcastIn(r, mine),
                         ![r].offset = 0,
                         ![r].buffer = <<>>,
                         ![r].pc = "ep_payload"]
  /\ UNCHANGED <<run, sent, reduceq, chan, summaries, repl, cvars, svars, rvars, gvars, pvars, jvars, evars>>

\* execute_payload 706-714, broadcast_payload: one turn of the loop, that
\* is one MPI_Bcast of a segment of at most INT_MAX bytes.  A segment is
\* told by the run it belongs to and the range of the lead's bytes it
\* carries; a rank stores what it gets at its own offset.
EpPayload(r) ==
  /\ Running(r)
  /\ rk[r].pc = "ep_payload"
  /\ IF rk[r].offset < rk[r].payload_len
       THEN /\ CanBcast(r)
            /\ LET count == SegmentLen(rk[r].payload_len - rk[r].offset)
                   mine  == [id |-> repl.runs, from |-> rk[r].offset, len |-> count]
                   got   == BcastIn(r, mine)
               IN  /\ bcastq' = BcastQ(r, mine)
                   /\ rk' = [rk EXCEPT
                        ![r].wait = WaitAfter(r, "bcast"),
                        ![r].bcasts = Append(@, "payload"),
                        ![r].buffer = IF r = 0 THEN @
                                      ELSE Append(@, [at |-> rk[r].offset, id |-> got.id,
                                                      from |-> got.from, len |-> got.len]),
                        ![r].offset = Wrap(@ + count),
                        ![r].pc = IF Wrap(rk[r].offset + count) < rk[r].payload_len
                                    THEN "ep_payload" ELSE "pc_init"]
       ELSE /\ rk' = [rk EXCEPT ![r].pc = "pc_init"]
            /\ UNCHANGED bcastq
  /\ UNCHANGED <<run, sent, reduceq, chan, summaries, repl, cvars, svars, rvars, gvars, pvars, jvars, evars>>

\* process_chunks 528-563: the cursor, the client, the first loop test.
ProcessInit(r) ==
  /\ Running(r)
  /\ rk[r].pc = "pc_init"
  /\ \E explicit_api_key \in KeyValues, env \in KeyValues,
        strdup_ok \in BOOLEAN, curl_ok \in BOOLEAN :
       LET init == api_client_init(explicit_api_key, env, run.dry_run,
                                   strdup_ok, curl_ok)
           init_ok == init.rc = 0
       IN
       rk' = [rk EXCEPT ![r] =
                NextChunk([@ EXCEPT
                  !.entered = TRUE,
                  !.cursor = chunk_cursor_init(rk[r].chunk_size, rk[r].payload_len,
                                               r, run.world_size),
                  !.client_ready = init_ok,
                  !.response_ready = init_ok,
                  !.stream_enabled = init_ok /\ run.repl_mode,
                  !.inits = IF init_ok THEN 1 ELSE 0,
                  !.cleanups = 0,
                  !.aborted = FALSE,
                  !.processed = 0, !.failures = 0, !.network_failures = 0,
                  !.remaining_resets = 0, !.chunk = NoChunk,
                  !.response_stream = <<>>, !.source = 1])]
  /\ UNCHANGED <<run, sent, bcastq, reduceq, chan, summaries, repl, cvars, svars, rvars, gvars, pvars, jvars, evars>>

\* process_chunks 571-637: one api_client_send of the current chunk and what
\* follows from its result, up to the next loop test.
SendChunk(r) ==
  /\ Running(r)
  /\ rk[r].pc = "send"
  /\ \E result \in SendResultsFor(run.dry_run, rk[r].chunk.end - rk[r].chunk.start,
                                    rk[r].max_request_bytes),
        reinit_ok \in BOOLEAN :
       /\ sent' = [sent EXCEPT ![r] =
                     Append(@, [chunk_index |-> rk[r].chunk.chunk_index,
                                start |-> rk[r].chunk.start,
                                end |-> rk[r].chunk.end,
                                result |-> result,
                                response |-> IF result = ErrNone
                                               THEN ResponseOf(run.dry_run,
                                                               rk[r].chunk.chunk_index)
                                               ELSE NoResponse,
                                path |-> PersistedPath(result,
                                                       rk[r].chunk.chunk_index, r)])]
       /\ rk' = [rk EXCEPT ![r] = HandleSend(@, result, reinit_ok)]
  /\ UNCHANGED <<run, bcastq, reduceq, chan, summaries, repl, cvars, svars, rvars, gvars, pvars, jvars, evars>>

ContributedNothing(i) == 0

\* The sum of the stats the other ranks have handed to MPI_Reduce.
Contributed(i) ==
  LET f == [q \in DOMAIN reduceq |-> reduceq[q][1][i]] IN SumOver(f, DOMAIN reduceq)

\* process_chunks 639-647: MPI_Reduce to rank 0, which logs the summary.
Reduce(r) ==
  /\ Running(r)
  /\ rk[r].pc = "reduce"
  /\ LET stats == <<rk[r].processed, rk[r].failures, rk[r].network_failures>> IN
     IF r = 0
       THEN /\ \A q \in DOMAIN reduceq : reduceq[q] # <<>>
            /\ summaries' = Append(summaries,
                                   <<stats[1] + Contributed(1), stats[2] + Contributed(2),
                                     stats[3] + Contributed(3)>>)
            /\ reduceq' = [q \in DOMAIN reduceq |-> <<>>]
            /\ rk' = [rk EXCEPT ![r].pc = "stream"]
       ELSE /\ reduceq[r] = <<>>
            /\ reduceq' = [reduceq EXCEPT ![r] = <<stats>>]
            /\ rk' = [rk EXCEPT ![r].wait = WaitAfter(r, "reduce"), ![r].pc = "stream"]
            /\ UNCHANGED summaries
  /\ UNCHANGED <<run, sent, bcastq, chan, repl, cvars, svars, rvars, gvars, pvars, jvars, evars>>

\* process_chunks 649-657, stream_responses_after_completion 460-482 and
\* 516-522: what a rank does with its response stream before any receive.
StreamBegin(r) ==
  /\ Running(r)
  /\ rk[r].pc = "stream"
  /\ IF ~rk[r].stream_enabled
       THEN /\ repl' = IF run.repl_mode /\ r = 0
                         THEN [repl EXCEPT !.repl_response = <<>>] ELSE repl
            /\ rk' = [rk EXCEPT ![r].pc = "finish"]
            /\ UNCHANGED chan
       ELSE IF run.world_size = 1
         THEN /\ rk' = [rk EXCEPT ![r].pc = "finish"]
              /\ UNCHANGED <<chan, repl>>
       ELSE IF r = 0
         THEN /\ repl' = [repl EXCEPT !.repl_response = @ \o rk[r].response_stream]
              /\ rk' = [rk EXCEPT ![r].pc = "stream_recv", ![r].source = 1]
              /\ UNCHANGED chan
       ELSE /\ chan' = [chan EXCEPT ![r] = Append(@, rk[r].response_stream)]
            /\ rk' = [rk EXCEPT ![r].wait = WaitAfter(r, "send"), ![r].pc = "finish"]
            /\ UNCHANGED repl
  /\ UNCHANGED <<run, sent, bcastq, reduceq, summaries, cvars, svars, rvars, gvars, pvars, jvars, evars>>

\* stream_responses_after_completion 483-514: rank 0 receives the stream of
\* one source.
StreamRecv(r) ==
  /\ Running(r)
  /\ rk[r].pc = "stream_recv"
  /\ LET source == rk[r].source IN
     /\ chan[source] # <<>>
     /\ chan' = [chan EXCEPT ![source] = Tail(@)]
     /\ repl' = [repl EXCEPT !.repl_response = @ \o Head(chan[source])]
     /\ rk' = [rk EXCEPT ![r].source = source + 1,
                         ![r].pc = IF source + 1 < run.world_size
                                     THEN "stream_recv" ELSE "finish"]
  /\ UNCHANGED <<run, sent, bcastq, reduceq, summaries, cvars, svars, rvars, gvars, pvars, jvars, evars>>


\* The end of process_chunks with api_client_cleanup called whatever the
\* state of the client.
FinishAlwaysCleans(r) ==
  /\ Running(r)
  /\ rk[r].pc = "finish"
  /\ rk' = [rk EXCEPT ![r].cleanups = @ + 1,
                      ![r].payload_len = 0,
                      ![r].buffer = <<>>,
                      ![r].exec_rc = 0,
                      ![r].pc = AfterExecute]
  /\ UNCHANGED <<run, sent, bcastq, reduceq, chan, summaries, repl, cvars, svars, rvars, gvars, pvars, jvars, evars>>

\* process_chunks 658-660 and execute_payload 717-724: the client is cleaned
\* up if it is ready, the payload is freed, execute_payload returns 0.
Finish(r) ==
  /\ Running(r)
  /\ rk[r].pc = "finish"
  /\ rk' = [rk EXCEPT ![r].cleanups = IF rk[r].client_ready THEN @ + 1 ELSE @,
                      ![r].payload_len = 0,
                      ![r].buffer = <<>>,
                      ![r].exec_rc = 0,
                      ![r].pc = AfterExecute]
  /\ UNCHANGED <<run, sent, bcastq, reduceq, chan, summaries, repl, cvars, svars, rvars, gvars, pvars, jvars, evars>>

\* run_repl_session 736-755: rank 0 captures a prompt, 'running' is
\* broadcast.  A prompt of 0 bytes stands for a failed capture; 'quit' says
\* whether repl_should_exit takes the prompt for the sentinel.
ReplTop(r) ==
  /\ Running(r)
  /\ rk[r].pc = "repl_top"
  /\ CanBcast(r)
  /\ \E len \in PayloadLens, quit \in BOOLEAN :
       /\ r # 0 => (len = 0 /\ ~quit)
       /\ (r = 0 /\ len = 0) => ~quit
       /\ (r = 0 /\ rk[r].turn > MaxTurns /\ len > 0) => quit
       /\ LET ready   == CaptureReady(r, len)
              mine    == IF quit THEN 0 ELSE rk[r].running
              running == BcastIn(r, mine)
          IN  /\ bcastq' = BcastQ(r, mine)
              /\ rk' = [rk EXCEPT ![r] =
                       [AfterCapture(@, r, len) EXCEPT
                          !.wait = WaitAfter(r, "bcast"),
                          !.ready = ready,
                          !.running = running,
                          !.prompt_len = len,
                          !.pc = IF running = 0 THEN "complete"
                                 ELSE "repl_ready"]]
  /\ UNCHANGED <<run, sent, reduceq, chan, summaries, repl, cvars, svars, rvars, gvars, pvars, jvars, evars>>

\* The loop with a failed capture taken for the end of the session.
AfterReadyFlagEndsSession(ready_flag) ==
  IF ready_flag = 1 THEN "ep_ready" ELSE "complete"

\* run_repl_session 762-764: if (!ready_flag) continue.
AfterReadyFlag(ready_flag) == IF ready_flag = 1 THEN "ep_ready" ELSE "repl_top"

\* run_repl_session 757-775: the iteration's readiness flag; rank 0 builds
\* the composite payload (build_repl_payload) and starts its repl_response.
ReplReady(r) ==
  /\ Running(r)
  /\ rk[r].pc = "repl_ready"
  /\ CanBcast(r)
  /\ LET ready_flag == BcastIn(r, rk[r].ready) IN
     /\ bcastq' = BcastQ(r, rk[r].ready)
     /\ rk' = [rk EXCEPT ![r].wait = WaitAfter(r, "bcast"),
                         ![r].payload_len =
                           IF r = 0 /\ ready_flag = 1
                             THEN TextLen(build_repl_payload(
                                    repl.history,
                                    PromptText(rk[r].turn, rk[r].prompt_len),
                                    rk[r].turn))
                             ELSE 0,
                         ![r].pc = AfterReadyFlag(ready_flag)]
     /\ repl' = IF r = 0 /\ ready_flag = 1
                  THEN [repl EXCEPT !.repl_response = <<>>] ELSE repl
  /\ UNCHANGED <<run, sent, reduceq, chan, summaries, cvars, svars, rvars, gvars, pvars, jvars, evars>>

\* run_repl_session 777-792: rank 0 appends the turn to the history; every
\* rank counts the turn.
ReplAfter(r) ==
  /\ Running(r)
  /\ rk[r].pc = "repl_after"
  /\ repl' = IF r = 0
               THEN [repl EXCEPT !.history =
                       AppendTurn(@, rk[r].turn,
                                  PromptText(rk[r].turn, rk[r].prompt_len),
                                  rk[r].exec_rc, StreamLen(repl.repl_response)),
                                 !.repl_response = <<>>]
               ELSE repl
  /\ rk' = [rk EXCEPT ![r].turn = @ + 1, ![r].pc = "repl_top"]
  /\ UNCHANGED <<run, sent, bcastq, reduceq, chan, summaries, cvars, svars, rvars, gvars, pvars, jvars, evars>>

\* main 871-884: "Rank %d complete", MPI_Finalize.
Complete(r) ==
  /\ Running(r)
  /\ rk[r].pc = "complete"
  /\ rk' = [rk EXCEPT ![r].pc = "exit"]
  /\ UNCHANGED <<run, sent, bcastq, reduceq, chan, summaries, repl, cvars, svars, rvars, gvars, pvars, jvars, evars>>

\* A posted broadcast, contribution or send returns once it has been taken.
MpiComplete(r) ==
  /\ r \in DOMAIN rk
  /\ rk[r].wait # "none"
  /\ CASE rk[r].wait = "bcast" -> \A q \in DOMAIN bcastq : bcastq[q] = <<>>
       [] rk[r].wait = "reduce" -> reduceq[r] = <<>>
       [] OTHER -> chan[r] = <<>>
  /\ rk' = [rk EXCEPT ![r].wait = "none"]
  /\ UNCHANGED <<run, sent, bcastq, reduceq, chan, summaries, repl, cvars, svars, rvars, gvars, pvars, jvars, evars>>

Step(r) ==
  \/ GatherOneShot(r)
  \/ EpReady(r)
  \/ EpChunkSize(r)
  \/ EpMaxRequest(r)
  \/ EpLength(r)
  \/ EpPayload(r)
  \/ ProcessInit(r)
  \/ SendChunk(r)
  \/ Reduce(r)
  \/ StreamBegin(r)
  \/ StreamRecv(r)
  \/ Finish(r)
  \/ ReplTop(r)
  \/ ReplReady(r)
  \/ ReplAfter(r)
  \/ Complete(r)
  \/ MpiComplete(r)

Next == \E r \in 0 .. MaxWorld - 1 : Step(r)

Spec == Init /\ [][Next]_vars

\* Every rank is scheduled: each is a process of its own.
FairSpec == Spec /\ \A r \in 0 .. MaxWorld - 1 : WF_vars(Step(r))

(***************************************************************************)
(* The coordinator's claims.                                               *)
(***************************************************************************)
\* The run is one-shot, has at least two ranks, and rank 0 has captured a
\* non-empty payload.
OneShotCaptured ==
  /\ ~run.repl_mode
  /\ run.world_size >= 2
  /\ rk[0].pc # "gather"
  /\ rk[0].ready = 1

\* Rank r has left the run: it is at "Rank %d complete" or past it.
Left(r) == rk[r].pc \in {"complete", "exit"}

\* The chunk indices of a payload of 'total' bytes that fall to rank r.
OwnChunks(r, total) ==
  {i \in 0 .. total \div rk[0].chunk_size :
     i % run.world_size = r /\ i * rk[0].chunk_size < total}

\* The chunk indices rank r has passed to api_client_send in this run.
SentChunks(r) == {sent[r][k].chunk_index : k \in DOMAIN sent[r]}

\* Rank r kept a working client up to the end of its chunk loop.
Healthy(r) == rk[r].client_ready /\ ~rk[r].aborted

\* C2: in a one-shot run with world_size >= 2 whose lead captured a
\* non-empty payload, every rank takes part in the broadcast and runs
\* process_chunks on its own strided chunks: a rank that has left the run
\* has entered process_chunks, has sent each of its own chunks (its client
\* permitting), and no chunk is sent by two ranks.
C2_EveryRankProcesses ==
  OneShotCaptured =>
    /\ \A r \in DOMAIN rk :
         Left(r) =>
           /\ rk[r].entered
           /\ Healthy(r) => OwnChunks(r, rk[r].cursor.total_length) \subseteq SentChunks(r)
    /\ \A r, q \in DOMAIN rk : r # q => SentChunks(r) \cap SentChunks(q) = {}

\* Rank r is past MPI_Reduce of the run it entered.
Reduced(r) ==
  /\ rk[r].entered
  /\ rk[r].wait # "reduce"
  /\ rk[r].pc \in {"stream", "stream_recv", "finish", "repl_after", "repl_top",
                   "repl_ready", "complete", "exit"}

\* C3: once the lead has captured the payload of its n-th run, every rank
\* eventually gets past the reduction of that run and the lead has logged
\* the n-th cluster summary (every api_client_send returns: SendChunk is
\* always enabled at "send").
C3_RunCompletes ==
  \A n \in 1 .. MaxTurns :
    (repl.runs = n) ~> (Len(summaries) = n /\ \A r \in DOMAIN rk : Reduced(r))

\* The reset budget the orchestrator is said to give every chunk.
ClaimedBudget == IF run.network_retry_limit < 0 THEN 0 ELSE run.network_retry_limit

\* This step is one api_client_send on rank r; SendResult(r) is its result.
SendStep(r) == r \in DOMAIN rk /\ Len(sent'[r]) = Len(sent[r]) + 1

SendResult(r) == sent'[r][Len(sent'[r])].result

\* How often rank r has passed chunk i to api_client_send.
SendsOf(r, i) == Cardinality({k \in DOMAIN sent[r] : sent[r][k].chunk_index = i})

\* Rank r's sends of one chunk are consecutive, carry one byte range, and
\* all but the last of them failed with type NETWORK.
SameChunkAgain(r) ==
  \A k \in DOMAIN sent[r] : \A l \in DOMAIN sent[r] :
    (k < l /\ sent[r][k].chunk_index = sent[r][l].chunk_index) =>
      /\ sent[r][k].result = ErrNetwork
      /\ sent[r][k].start = sent[r][l].start
      /\ sent[r][k].end = sent[r][l].end
      /\ \A m \in k .. l : sent[r][m].chunk_index = sent[r][k].chunk_index

\* How the budget stands while rank r is about to send its current chunk.
BudgetKept(r) ==
  /\ \A i \in SentChunks(r) : SendsOf(r, i) <= ClaimedBudget + 1
  /\ rk[r].pc = "send" =>
       /\ rk[r].remaining_resets >= 0
       /\ rk[r].remaining_resets + SendsOf(r, rk[r].chunk.chunk_index) = ClaimedBudget
  /\ SameChunkAgain(r)

\* C4: a NETWORK failure with reset budget left decrements the budget,
\* destroys the client, rebuilds it and, when the rebuild succeeds, leaves
\* the rank on the same chunk (same index and byte range) to send it again;
\* every chunk starts with budget network_retry_limit (negative as 0), so a
\* chunk is sent at most network_retry_limit + 1 times.
C4_NetworkReset ==
  [][\A r \in DOMAIN rk :
       /\ BudgetKept(r)
       /\ (SendStep(r) /\ SendResult(r) = ErrNetwork /\ rk[r].remaining_resets > 0) =>
            /\ rk'[r].remaining_resets = rk[r].remaining_resets - 1
            /\ rk'[r].cleanups = rk[r].cleanups + 1
            /\ rk'[r].processed = rk[r].processed
            /\ rk'[r].failures = rk[r].failures
            /\ rk'[r].chunk = rk[r].chunk
            /\ IF rk'[r].client_ready
                 THEN /\ rk'[r].inits = rk[r].inits + 1
                      /\ rk'[r].pc = "send"
                 ELSE rk'[r].inits = rk[r].inits
       /\ (SendStep(r) /\ rk'[r].pc = "send" /\ rk'[r].chunk # rk[r].chunk) =>
            rk'[r].remaining_resets = ClaimedBudget]_vars

\* A chunk that used up a budget of at least 1: it was sent twice, the
\* client was rebuilt in between, and the rank went on to another chunk.
C4_Witness ==
  \E r \in DOMAIN rk :
    /\ run.network_retry_limit >= 1
    /\ Len(sent[r]) >= 3
    /\ sent[r][1].result = ErrNetwork
    /\ sent[r][2].chunk_index = sent[r][1].chunk_index
    /\ sent[r][2].result = ErrNetwork
    /\ sent[r][3].chunk_index # sent[r][1].chunk_index
    /\ rk[r].inits >= 2

\* The worker has a chunk after the current one.
HasNextChunk(r) ==
  (rk[r].chunk.chunk_index + run.world_size) * rk[r].chunk_size < rk[r].cursor.total_length

\* C5: a send that fails with type HTTP or PERMANENT, or with type NETWORK
\* while the budget is 0, causes no client reset and no further send of the
\* chunk; failures grows by 1, network_failures by 1 only for NETWORK, the
\* chunk counts as processed and the worker goes on with its next chunk, or
\* to the reduction when it has none.
C5_FailureMovesOn ==
  [][\A r \in DOMAIN rk :
       (/\ SendStep(r)
        /\ \/ SendResult(r) \in {ErrHttp, ErrPermanent}
           \/ SendResult(r) = ErrNetwork /\ rk[r].remaining_resets = 0) =>
         /\ rk'[r].inits = rk[r].inits
         /\ rk'[r].cleanups = rk[r].cleanups
         /\ rk'[r].client_ready
         /\ ~rk'[r].aborted
         /\ rk'[r].failures = rk[r].failures + 1
         /\ rk'[r].network_failures =
              rk[r].network_failures + (IF SendResult(r) = ErrNetwork THEN 1 ELSE 0)
         /\ rk'[r].processed = rk[r].processed + 1
         /\ IF HasNextChunk(r)
              THEN /\ rk'[r].pc = "send"
                   /\ rk'[r].chunk.chunk_index = rk[r].chunk.chunk_index + run.world_size
              ELSE rk'[r].pc = "reduce"]_vars

\* A worker went on to its next chunk after an HTTP failure and after a
\* NETWORK failure that found the budget at 0.
C5_Witness ==
  \E r \in DOMAIN rk :
    /\ run.network_retry_limit = 0
    /\ Len(sent[r]) = 2
    /\ sent[r][1].result = ErrNetwork
    /\ sent[r][2].result = ErrHttp
    /\ sent[r][2].chunk_index = sent[r][1].chunk_index + run.world_size
    /\ rk[r].failures = 2
    /\ rk[r].network_failures = 1
    /\ rk[r].pc = "reduce"

\* C6: a failed rebuild on worker w is fatal to w's remaining chunks only:
\* w sends nothing more and goes to the reduction, and every other worker
\* that leaves the run has run process_chunks and, its own client
\* permitting, sent all of its own chunks.
C6_AbortIsLocal ==
  \A w \in DOMAIN rk :
    rk[w].aborted =>
      /\ rk[w].pc # "send"
      /\ sent[w] # <<>>
      /\ sent[w][Len(sent[w])].result = ErrNetwork
      /\ \A q \in DOMAIN rk \ {w} :
           Left(q) =>
             /\ rk[q].entered
             /\ Healthy(q) => OwnChunks(q, rk[q].cursor.total_length) \subseteq SentChunks(q)

\* Rank r has left the chunk loop of the run it entered.
LoopDone(r) == rk[r].entered /\ rk[r].pc \notin {"pc_init", "send"}

\* The chunk size a run works with when --chunk-size gave 'option'.
EffectiveChunkSize(option) == IF option < 128 THEN 128 ELSE option

\* The byte range of chunk i of 'total' bytes cut every 'cs' bytes.
RangeOf(i, cs, total) ==
  [start |-> i * cs, end |-> IF (i + 1) * cs < total THEN (i + 1) * cs ELSE total]

\* The number of chunks of 'total' bytes that fall to rank r.
OwnCount(r, cs, total) ==
  Cardinality({i \in 0 .. total \div cs : i % run.world_size = r /\ i * cs < total})

\* Rank r's log of sends is its own chunks, each once, in index order.
SentInOrder(r, cs, total) ==
  /\ Len(sent[r]) = OwnCount(r, cs, total)
  /\ \A k \in DOMAIN sent[r] :
       LET i == r + (k - 1) * run.world_size IN
       /\ sent[r][k].chunk_index = i
       /\ sent[r][k].start = RangeOf(i, cs, total).start
       /\ sent[r][k].end = RangeOf(i, cs, total).end

DryRunSendsNothing ==
  (sendcfg.dry_run /\ sendcfg.chunk_len <= sendcfg.max_request_bytes) =>
    /\ send.posts = 0
    /\ send.sleeps = <<>>
    /\ send.pc = "done" =>
         /\ send.rc = 0
         /\ send.error_type = ErrNone
         /\ send.response = [chunk |-> sendcfg.chunk_index, status |-> "dry-run"]

\* In a one-shot run the lead has failed to capture a payload.
OneShotCaptureFailed ==
  ~run.repl_mode /\ rk[0].pc # "gather" /\ rk[0].payload_len = 0 /\ repl.runs = 0

\* No rank has done anything for a payload: no broadcast posted or taken, no
\* buffer held, process_chunks not entered, nothing sent.
NothingProcessed ==
  /\ \A q \in DOMAIN bcastq : bcastq[q] = <<>>
  /\ \A r \in DOMAIN rk :
       /\ rk[r].pc \in {"gather", "complete", "exit"}
       /\ rk[r].wait = "none"
       /\ rk[r].payload_len = 0
       /\ ~rk[r].entered
       /\ sent[r] = <<>>

\* This step is rank r taking the readiness flag of a REPL iteration whose
\* capture failed.
FailedIteration(r) ==
  /\ r \in DOMAIN rk
  /\ rk[r].pc = "repl_ready"
  /\ rk'[r].pc # "repl_ready"
  /\ (IF r = 0 THEN rk[r].ready ELSE Head(bcastq[r])) = 0

\* C14: when the lead fails to capture a payload no worker sends a chunk
\* (hence persists no response) or holds a payload buffer for that run: a
\* one-shot run ends without any broadcast, and a REPL iteration goes
\* back to the prompt right after the readiness flag.
C14_NoPayloadNoWork ==
  [][/\ OneShotCaptureFailed => NothingProcessed
     /\ OneShotCaptureFailed' => NothingProcessed'
     /\ \A r \in DOMAIN rk :
          /\ (rk[r].pc = "repl_ready" /\ r = 0 /\ rk[r].ready = 0) => rk[r].payload_len = 0
          /\ FailedIteration(r) =>
               /\ rk'[r].pc = "repl_top"
               /\ rk'[r].payload_len = 0
               /\ rk'[r].entered = rk[r].entered
               /\ rk'[r].inits = rk[r].inits
               /\ sent' = sent
               /\ repl' = repl]_vars

\* A one-shot run of two ranks has ended after a failed capture.
C14_Witness ==
  /\ OneShotCaptureFailed
  /\ run.world_size = 2
  /\ \A r \in DOMAIN rk : rk[r].pc = "exit"

\* The ranks other than the lead that are past the broadcast phase of a
\* run whose reduction the lead has yet to complete.
PastBroadcast(r) == r # 0 /\ rk[r].pc \in {"pc_init", "send", "reduce"}

\* The buffer of rank r holds the bytes of the lead's payload of this run:
\* its pieces are the lead's bytes of the same positions, they follow one
\* another from 0 to the payload length, and none is longer than an int.
HoldsPayload(r) ==
  LET b == rk[r].buffer IN
  /\ b # <<>>
  /\ b[1].at = 0
  /\ b[Len(b)].at + b[Len(b)].len = rk[0].payload_len
  /\ \A k \in DOMAIN b :
       /\ b[k].id = repl.runs
       /\ b[k].from = b[k].at
       /\ b[k].len > 0
       /\ b[k].len <= IntMax
       /\ k > 1 => b[k].at = b[k - 1].at + b[k - 1].len

\* The order of the broadcasts of execute_payload.
BroadcastOrder(n) ==
  IF n = 1 THEN "ready"
  ELSE IF n = 2 THEN "chunk_size"
  ELSE IF n = 3 THEN "max_request_bytes"
  ELSE IF n = 4 THEN "payload_len"
  ELSE "payload"

StatsOf(r) == <<rk[r].processed, rk[r].failures, rk[r].network_failures>>

\* The sum over all ranks of local counter i.
ClusterSum(i) ==
  LET f == [r \in DOMAIN rk |-> StatsOf(r)[i]] IN SumOver(f, DOMAIN rk)

\* The number of chunks of 'total' bytes cut every 'cs' bytes.
CeilDiv(total, cs) == (total + cs - 1) \div cs

\* Every api_client_send of the run returned success.
EverySendSucceeded ==
  \A r \in DOMAIN rk : \A k \in DOMAIN sent[r] : sent[r][k].result = ErrNone

\* The lead has just logged the cluster summary of the current run.
SummaryLogged == summaries # <<>> /\ rk[0].pc = "stream"

Processing(r) == rk[r].pc \in {"pc_init", "send"} /\ rk[r].wait = "none"

\* Nothing is handed to or taken from MPI in this step.
NoExchange == bcastq' = bcastq /\ reduceq' = reduceq /\ chan' = chan

\* C17 as stated: broadcast and reduction are the only exchanges of a
\* coordinator run: no rank ever posts a point-to-point send or sits in a
\* receive.
C17_OnlyBroadcastAndReduce ==
  /\ \A q \in DOMAIN chan : chan[q] = <<>>
  /\ \A r \in DOMAIN rk : rk[r].pc # "stream_recv"

\* C17: a rank between the end of the payload broadcast and the reduction
\* can always take its next step, whatever the other ranks do, and its
\* steps neither post nor take any message nor leave it waiting; the only
\* exchange besides broadcast and reduction is the point-to-point transfer
\* of the response streams to rank 0, which happens in REPL mode only, with
\* two or more ranks, after the rank's reduction.
C17_ProcessingIsLocal ==
  [][/\ \A r \in DOMAIN rk :
          Processing(r) =>
            /\ ENABLED (ProcessInit(r) \/ SendChunk(r))
            /\ rk'[r] # rk[r] => (NoExchange /\ rk'[r].wait = "none")
     /\ chan' # chan =>
          /\ run.repl_mode
          /\ run.world_size > 1
          /\ \E r \in DOMAIN rk :
               /\ rk[r].pc \in {"stream", "stream_recv"}
               /\ rk'[r] # rk[r]
               /\ rk[r].stream_enabled
     /\ bcastq' # bcastq =>
          \E r \in DOMAIN rk :
            /\ rk'[r] # rk[r]
            /\ rk[r].pc \in {"ep_ready", "ep_chunk", "ep_maxreq", "ep_len",
                              "ep_payload", "repl_top", "repl_ready"}
     /\ reduceq' # reduceq =>
          \E r \in DOMAIN rk : rk'[r] # rk[r] /\ rk[r].pc = "reduce"]_vars

\* A rank is about to retry a failed send on a fresh client while the other
\* rank has yet to send its first chunk.
C17_Witness ==
  /\ run.world_size = 2
  /\ rk[0].pc = "send"
  /\ rk[1].pc = "send"
  /\ rk[1].wait = "none"
  /\ Len(sent[1]) = 1
  /\ sent[1][1].result = ErrNetwork
  /\ rk[1].inits = 2
  /\ sent[0] = <<>>

\* The files written in the current run: (rank, position in its log).
Writes ==
  UNION {{<<r, k>> : k \in {j \in DOMAIN sent[r] : sent[r][j].path # NoPath}} :
         r \in DOMAIN sent}

\* C18: within one run no response path is written twice, by one rank or by
\* two; a written path is the path of the (chunk index, rank) of a send
\* that succeeded, and a chunk index is only ever sent by the one rank it
\* falls to, chunk_index % world_size.
C18_NoPathWrittenTwice ==
  /\ \A v, w \in Writes :
       sent[v[1]][v[2]].path = sent[w[1]][w[2]].path => v = w
  /\ \A r \in DOMAIN sent : \A k \in DOMAIN sent[r] :
       /\ sent[r][k].path # NoPath =>
            /\ sent[r][k].result = ErrNone
            /\ sent[r][k].path = ResponsePath(sent[r][k].chunk_index, r)
       /\ sent[r][k].chunk_index % run.world_size = r
       /\ \A j \in DOMAIN sent[r] :
            (j < k /\ sent[r][j].chunk_index = sent[r][k].chunk_index) =>
              sent[r][j].result # ErrNone

\* Two ranks have each written a file, one of them after a failed send of
\* the same chunk.
C18_Witness ==
  /\ run.world_size = 2
  /\ \E v, w \in Writes : v[1] = 0 /\ w[1] = 1
  /\ \E r \in DOMAIN sent :
       /\ Len(sent[r]) >= 2
       /\ sent[r][1].chunk_index = sent[r][2].chunk_index
       /\ sent[r][2].path # NoPath

\* Rank 0 appends a turn to the history in this step.
TurnAppended == rk[0].pc = "repl_after" /\ rk'[0].pc = "repl_top"

\* Some send of the turn's run succeeded, on some rank.
SomeSendSucceeded ==
  \E r \in DOMAIN sent : \E k \in DOMAIN sent[r] : sent[r][k].result = ErrNone

\* The assistant's part of the last history entry.
LastReply(history) == history[Len(history) - 2]

\* C19: when rank 0 appends a REPL turn in whose run some send succeeded on
\* some rank, the captured reply is not empty and the appended entry holds
\* it, not the placeholder, with one rank as with several.
C19_ReplyCaptured ==
  [][(TurnAppended /\ SomeSendSucceeded) =>
       /\ repl.repl_response # <<>>
       /\ LastReply(repl'.history).kind = "reply"
       /\ LastReply(repl'.history).len = StreamLen(repl.repl_response)]_vars

(***************************************************************************)
(* SpecRepl: run_repl_session as rank 0 sees it over several turns, with   *)
(* execute_payload taken as one step that leaves a return code and a       *)
(* captured reply.                                                         *)
(***************************************************************************)
MaxSessionTurns == 3

\* The prompt lengths of a session; 0 stands for a failed capture.
SessionPrompts == {0, 1, 11}

\* The lengths of the reply execute_payload leaves in repl_response.
SessionReplies == {0, 60}

ReplInit ==
  /\ GatherIdle
  /\ ProviderIdle
  /\ JsonIdle
  /\ ExitIdle
  /\ CursorIdle
  /\ SendIdle
  /\ MainIdle
  /\ session = [pc |-> "capture", history |-> <<>>, turn |-> 1, running |-> 1,
                ready |-> 0, prompt_len |-> 0, composite |-> <<>>,
                exec_rc |-> 0, reply_len |-> 0]

\* run_repl_session 736-764: the prompt is captured, the sentinel ends the
\* session, a failed capture goes back to the loop head.
SessionCapture ==
  /\ session.pc = "capture"
  /\ \E len \in SessionPrompts, quit \in BOOLEAN :
       /\ len = 0 => ~quit
       /\ (session.turn > MaxSessionTurns /\ len > 0) => quit
       /\ session' = [session EXCEPT
                        !.ready = IF len > 0 THEN 1 ELSE 0,
                        !.running = IF quit THEN 0 ELSE 1,
                        !.prompt_len = len,
                        !.pc = IF quit THEN "done"
                               ELSE IF len > 0 THEN "build" ELSE "capture"]
  /\ UNCHANGED <<cvars, svars, mvars, gvars, pvars, jvars, evars>>

\* run_repl_session 766-769: build_repl_payload.
SessionBuild ==
  /\ session.pc = "build"
  /\ session' = [session EXCEPT
                   !.composite = build_repl_payload(
                                   session.history,
                                   PromptText(session.turn, session.prompt_len),
                                   session.turn),
                   !.pc = "execute"]
  /\ UNCHANGED <<cvars, svars, mvars, gvars, pvars, jvars, evars>>

\* run_repl_session 771-775: execute_payload over the composite.
SessionExecute ==
  /\ session.pc = "execute"
  /\ \E rc \in {0, -1}, reply_len \in SessionReplies :
       session' = [session EXCEPT !.exec_rc = rc, !.reply_len = reply_len,
                                  !.pc = "append"]
  /\ UNCHANGED <<cvars, svars, mvars, gvars, pvars, jvars, evars>>

\* run_repl_session 777-793: the turn goes into the history, turn++.
SessionAppend ==
  /\ session.pc = "append"
  /\ session' = [session EXCEPT
                   !.history = AppendTurn(@, session.turn,
                                          PromptText(session.turn, session.prompt_len),
                                          session.exec_rc, session.reply_len),
                   !.turn = @ + 1,
                   !.composite = <<>>,
                   !.pc = "capture"]
  /\ UNCHANGED <<cvars, svars, mvars, gvars, pvars, jvars, evars>>

NextRepl == SessionCapture \/ SessionBuild \/ SessionExecute \/ SessionAppend

SpecRepl == ReplInit /\ [][NextRepl]_vars

\* The positions of 'piece' in 'text'.
PositionsOf(piece, text) == {i \in DOMAIN text : text[i] = piece}

\* 'text' starts with 'head'.
StartsWith(text, head) ==
  Len(head) <= Len(text) /\ SubSeq(text, 1, Len(head)) = head

\* What 'text' has after its first 'n' pieces.
After(text, n) == SubSeq(text, n + 1, Len(text))

AtOrPastConfigBroadcast(r) ==
  rk[r].pc \in {"ep_chunk", "ep_maxreq", "ep_len", "ep_payload", "pc_init", "send"}

\* C21: from the broadcast of chunk_size and max_request_bytes on, and for
\* every chunk sent, chunk_size is at least the minimum of 128 and
\* max_request_bytes is at least chunk_size, whatever the payload length
\* and whether or not a task target has rederived the chunk size.
C21_ChunkSizeAtLeastMinimum ==
  \A r \in DOMAIN rk :
    /\ AtOrPastConfigBroadcast(r) =>
         /\ rk[r].chunk_size >= MinChunkSize
         /\ rk[r].max_request_bytes >= rk[r].chunk_size
    /\ rk[r].pc = "send" => rk[r].cursor.chunk_size >= MinChunkSize

(***************************************************************************)
(* SpecGather: rank 0's configuration from the end of cli_parse_args       *)
(* through the captures of gather_payload_root: config_finalize, then per  *)
(* captured payload maybe_autoscale_payload and                            *)
(* maybe_adjust_chunk_from_tasks.                                          *)
(***************************************************************************)
MaxGathers == 2

\* AutoScaleMode
AutoscaleNone == "AUTOSCALE_MODE_NONE"
AutoscaleThreads == "AUTOSCALE_MODE_THREADS"
AutoscaleChunks == "AUTOSCALE_MODE_CHUNKS"

\* DEEPSEEK_AUTOSCALE_DEFAULT_THRESHOLD, 100 MiB, brought down to the word
\* size of the model.
AutoscaleDefaultThreshold == SizeMod \div 4

\* DEEPSEEK_AUTOSCALE_DEFAULT_FACTOR
AutoscaleDefaultFactor == 2

\* What the options may give.  A task target of 0 stands for no --tasks; a
\* threshold of 0 for --auto-scale-threshold 0.
GatherChunkSizes == {4, 200}
GatherMaxRequests == {1, 1000}
GatherTasks == {0, 1, 3, SizeMod \div 2}
GatherThresholds == {0, 100}
GatherFactors == {1, 2, 4}
GatherLengths == {0, 11, 99, 100, 300}

config_finalize(c) ==
  [c EXCEPT
     !.chunk_size = FinalizeChunkSize(c.chunk_size),
     !.max_request_bytes = FinalizeMaxRequest(c.max_request_bytes,
                                              FinalizeChunkSize(c.chunk_size)),
     !.auto_scale_factor = IF c.auto_scale_factor < 1 THEN AutoscaleDefaultFactor
                           ELSE c.auto_scale_factor,
     !.auto_scale_threshold_bytes =
        IF c.auto_scale_threshold_bytes = 0 THEN AutoscaleDefaultThreshold
        ELSE c.auto_scale_threshold_bytes]

AutoscaleFiresAbove(length, threshold) == length > threshold

\* maybe_autoscale_payload 268: the payload reaches the threshold.
AutoscaleFires(length, threshold) == ~(length < threshold)

ScaledTasksFromWorld(c) == Wrap(c.world_size * c.auto_scale_factor)

\* maybe_autoscale_payload 272-279: the scaled task target.
ScaledTasks(c) ==
  LET given  == IF c.target_tasks_set /\ c.target_tasks > 0
                  THEN c.target_tasks ELSE c.world_size
      base   == IF given = 0 THEN 1 ELSE given
      scaled == Wrap(base * c.auto_scale_factor)
  IN  IF scaled = 0 THEN base ELSE scaled

maybe_autoscale_always(c, length) ==
  [c EXCEPT !.target_tasks = ScaledTasks(c), !.target_tasks_set = TRUE]

maybe_autoscale_payload(c, length) ==
  IF c.auto_scale_mode = AutoscaleNone THEN c
  ELSE IF c.auto_scale_threshold_bytes = 0 \/ c.auto_scale_factor <= 0 THEN c
  ELSE IF ~AutoscaleFires(length, c.auto_scale_threshold_bytes) THEN c
  ELSE IF c.auto_scale_mode = AutoscaleChunks
    THEN [c EXCEPT !.target_tasks = ScaledTasks(c), !.target_tasks_set = TRUE]
  ELSE c

\* maybe_autoscale_payload 280-290: what it logs, if anything.
AutoscaleLog(c, length) ==
  IF \/ c.auto_scale_mode = AutoscaleNone
     \/ c.auto_scale_threshold_bytes = 0 \/ c.auto_scale_factor <= 0
     \/ ~AutoscaleFires(length, c.auto_scale_threshold_bytes)
    THEN "nothing"
  ELSE IF c.auto_scale_mode = AutoscaleChunks THEN "Autoscale (chunks) triggered"
  ELSE IF c.auto_scale_mode = AutoscaleThreads
    THEN "Autoscale (threads) requested but MPI world size is fixed"
  ELSE "nothing"

maybe_adjust_chunk_from_tasks(c, length) ==
  IF ~c.target_tasks_set \/ c.target_tasks = 0 \/ length = 0 THEN c
  ELSE [c EXCEPT
          !.chunk_size = AdjustChunkSize(c.target_tasks, length, c.chunk_size),
          !.max_request_bytes = AdjustMaxRequest(c.target_tasks, length, c.chunk_size,
                                                 c.max_request_bytes)]

GatherInit ==
  /\ CursorIdle
  /\ SendIdle
  /\ MainIdle
  /\ SessionIdle
  /\ ProviderIdle
  /\ JsonIdle
  /\ ExitIdle
  /\ \E cs \in GatherChunkSizes, mq \in GatherMaxRequests, tasks \in GatherTasks,
        ws \in 1 .. MaxWorld,
        mode \in {AutoscaleNone, AutoscaleThreads, AutoscaleChunks},
        threshold \in GatherThresholds, factor \in GatherFactors :
       LET config == [chunk_size |-> cs, max_request_bytes |-> mq,
                      target_tasks |-> tasks, target_tasks_set |-> tasks > 0,
                      world_size |-> ws, auto_scale_mode |-> mode,
                      auto_scale_threshold_bytes |-> threshold,
                      auto_scale_factor |-> factor]
       IN gather = [pc |-> "cli", gathers |-> 0, length |-> 0, log |-> "nothing",
                    config |-> config, finalized |-> config]

\* cli_parse_args 498; 'finalized' keeps the configuration as it is now.
GatherFinalize ==
  /\ gather.pc = "cli"
  /\ gather' = [gather EXCEPT !.config = config_finalize(@),
                              !.finalized = config_finalize(gather.config),
                              !.pc = "capture"]
  /\ UNCHANGED <<cvars, svars, mvars, rvars, pvars, jvars, evars>>

\* gather_payload_root 162-210: a payload is captured; an empty one is an
\* error and leaves the configuration alone.
GatherCapture ==
  /\ gather.pc = "capture"
  /\ gather.gathers < MaxGathers
  /\ \E len \in GatherLengths :
       gather' = [gather EXCEPT !.length = len, !.gathers = @ + 1,
                                !.pc = IF len = 0 THEN "capture" ELSE "autoscale"]
  /\ UNCHANGED <<cvars, svars, mvars, rvars, pvars, jvars, evars>>

\* gather_payload_root 212.
GatherAutoscale ==
  /\ gather.pc = "autoscale"
  /\ gather' = [gather EXCEPT !.config = maybe_autoscale_payload(@, gather.length),
                              !.log = AutoscaleLog(gather.config, gather.length),
                              !.pc = "adjust"]
  /\ UNCHANGED <<cvars, svars, mvars, rvars, pvars, jvars, evars>>

\* gather_payload_root 213-214.
GatherAdjust ==
  /\ gather.pc = "adjust"
  /\ gather' = [gather EXCEPT
                  !.config = maybe_adjust_chunk_from_tasks(@, gather.length),
                  !.pc = "capture"]
  /\ UNCHANGED <<cvars, svars, mvars, rvars, pvars, jvars, evars>>

NextGather == GatherFinalize \/ GatherCapture \/ GatherAutoscale \/ GatherAdjust

SpecGather == GatherInit /\ [][NextGather]_vars

\* The larger and the smaller of two numbers.
Larger(a, b) == IF a > b THEN a ELSE b
Smaller(a, b) == IF a < b THEN a ELSE b

\* The chunk size the specification derives from a task target.
ClaimedChunkSize(L, T) == Smaller(L, Larger(CeilDiv(L, T), MinChunkSize))

\* maybe_adjust_chunk_from_tasks runs in this step with a task target set.
AdjustsWithTarget ==
  /\ gather.pc = "adjust"
  /\ gather.config.target_tasks_set
  /\ gather.config.target_tasks > 0
  /\ gather.length > 0

\* C22: with a task target T > 0 and a payload of L > 0 bytes,
\* maybe_adjust_chunk_from_tasks sets chunk_size to
\* min(L, max(ceil(L / T), 128)), raises max_request_bytes to chunk_size
\* when it was smaller and leaves it alone otherwise, and the payload then
\* makes at most T chunks.
C22_ChunkFromTasks ==
  [][AdjustsWithTarget =>
       LET L == gather.length
           T == gather.config.target_tasks
           c == gather'.config
       IN  /\ c.chunk_size = ClaimedChunkSize(L, T)
           /\ c.max_request_bytes =
                Larger(gather.config.max_request_bytes, c.chunk_size)
           /\ CeilDiv(L, c.chunk_size) <= T
           /\ c.target_tasks = T]_vars

\* A 300-byte payload with a task target of 3 got chunks of 128 bytes, and
\* the request limit was left alone.
C22_Witness ==
  /\ gather # <<>>
  /\ gather.pc = "capture"
  /\ gather.gathers = 1
  /\ gather.length = 300
  /\ gather.config.target_tasks = 3
  /\ gather.config.chunk_size = 128
  /\ gather.config.max_request_bytes = 1000

\* maybe_autoscale_payload runs in this step in 'chunks' mode with a
\* positive threshold and factor.
AutoscalesInChunksMode ==
  /\ gather.pc = "autoscale"
  /\ gather.config.auto_scale_mode = AutoscaleChunks
  /\ gather.config.auto_scale_threshold_bytes > 0
  /\ gather.config.auto_scale_factor > 0

\* The step gave the configuration a task target and marked it set.
TargetScaled ==
  /\ gather'.config.target_tasks_set
  /\ gather'.config.target_tasks = ScaledTasks(gather.config)
  /\ gather'.log = "Autoscale (chunks) triggered"

\* C23: in 'chunks' mode with threshold > 0 and factor > 0 the task target
\* is scaled when the payload length is at least the threshold, a length
\* equal to the threshold included, and the configuration is left as it
\* was when the length is below it, threshold - 1 included.
C23_ScalesFromThreshold ==
  [][AutoscalesInChunksMode =>
       /\ gather.length >= gather.config.auto_scale_threshold_bytes => TargetScaled
       /\ gather.length < gather.config.auto_scale_threshold_bytes =>
            (gather'.config = gather.config /\ gather'.log = "nothing")]_vars

\* A payload of exactly the threshold has scaled a world of 2 by 4.
C23_Witness ==
  /\ gather # <<>>
  /\ gather.pc = "adjust"
  /\ gather.gathers = 1
  /\ gather.length = 100
  /\ gather.config.auto_scale_threshold_bytes = 100
  /\ gather.config.auto_scale_mode = AutoscaleChunks
  /\ gather.config.world_size = 2
  /\ gather.config.target_tasks = 8
  /\ gather.config.target_tasks_set

\* maybe_autoscale_payload fires in this step in 'chunks' mode.
AutoscaleFiring ==
  /\ AutoscalesInChunksMode
  /\ gather.length >= gather.config.auto_scale_threshold_bytes

\* The task target the specification scales: the explicit one, else the
\* world size.
ClaimedBaseTasks(c) ==
  IF c.target_tasks_set /\ c.target_tasks > 0 THEN c.target_tasks ELSE c.world_size

\* C24: when autoscale fires in 'chunks' mode the new task target is the
\* explicit task target (if set and > 0, else world_size) times the factor,
\* the target is marked set, and the chunk size is then derived from it.
C24_TargetTimesFactor ==
  [][/\ AutoscaleFiring =>
          /\ gather'.config.target_tasks =
               ClaimedBaseTasks(gather.config) * gather.config.auto_scale_factor
          /\ gather'.config.target_tasks_set
          /\ gather'.pc = "adjust"
     /\ (gather.pc = "adjust" /\ gather.log = "Autoscale (chunks) triggered") =>
          gather'.config.chunk_size =
            ClaimedChunkSize(gather.length, gather.config.target_tasks)]_vars

\* maybe_autoscale_payload runs in this step and is not to scale: autoscale
\* is off, the payload is below the threshold, or the mode is 'threads'.
AutoscaleNotToScale ==
  /\ gather.pc = "autoscale"
  /\ \/ gather.config.auto_scale_mode = AutoscaleNone
     \/ gather.length < gather.config.auto_scale_threshold_bytes
     \/ gather.config.auto_scale_mode = AutoscaleThreads

\* Configurations as they are before config_finalize: a threshold of 0 or a
\* factor of 0 or less.
InvalidScaleConfigs ==
  [chunk_size : {128}, max_request_bytes : {256}, target_tasks : {0, 3},
   target_tasks_set : BOOLEAN, world_size : 1 .. MaxWorld,
   auto_scale_mode : {AutoscaleNone, AutoscaleThreads, AutoscaleChunks},
   auto_scale_threshold_bytes : {0, 100}, auto_scale_factor : {-1, 0, 2}]

\* C25: maybe_autoscale_payload leaves target_tasks, target_tasks_set,
\* chunk_size, max_request_bytes and world_size as they were when autoscale
\* is off, when the threshold is 0 or the factor is 0 or less, when the
\* payload is shorter than the threshold, and in 'threads' mode, where a
\* payload that reaches the threshold gets the limitation logged and
\* nothing else.
C25_AutoscaleLeavesConfig ==
  [][/\ AutoscaleNotToScale =>
          /\ gather'.config = gather.config
          /\ gather'.log =
               IF /\ gather.config.auto_scale_mode = AutoscaleThreads
                  /\ gather.length >= gather.config.auto_scale_threshold_bytes
                 THEN "Autoscale (threads) requested but MPI world size is fixed"
                 ELSE "nothing"
     /\ \A c \in InvalidScaleConfigs : \A length \in GatherLengths :
          (c.auto_scale_threshold_bytes = 0 \/ c.auto_scale_factor <= 0) =>
            /\ maybe_autoscale_payload(c, length) = c
            /\ AutoscaleLog(c, length) = "nothing"]_vars

\* 'threads' mode has met a payload above the threshold: the limitation is
\* logged and an explicit task target of 3 is still 3.
C25_Witness ==
  /\ gather # <<>>
  /\ gather.pc = "adjust"
  /\ gather.config.auto_scale_mode = AutoscaleThreads
  /\ gather.length = 300
  /\ gather.config.auto_scale_threshold_bytes = 100
  /\ gather.log = "Autoscale (threads) requested but MPI world size is fixed"
  /\ gather.config.target_tasks = 3

(***************************************************************************)
(* C26: the client's initialisation and a rank whose client never came up. *)
(***************************************************************************)
\* api_client_init's verdict for every explicit key and environment value:
\* with neither and dry_run off it fails; with neither and dry_run on it
\* succeeds, holding no key, once curl_global_init succeeds.
InitNeedsCredential ==
  \A dry_run \in BOOLEAN, strdup_ok \in BOOLEAN, curl_ok \in BOOLEAN :
    LET init == api_client_init(NoKey, NoKey, dry_run, strdup_ok, curl_ok) IN
    /\ ~dry_run => init.rc = -1 /\ init.error = ErrKeyExpected
    /\ (dry_run /\ curl_ok) => init.rc = 0 /\ init.api_key = NoKey

\* Rank r is in process_chunks and its api_client_init at line 536 failed.
InitFailed(r) == rk[r].entered /\ rk[r].inits = 0 /\ rk[r].pc # "pc_init"

\* C26: api_client_init fails when neither the explicit key nor the named
\* environment variable gives a credential and dry_run is off, and succeeds
\* without one when dry_run is on; a rank whose first api_client_init failed
\* sends no chunk and hands processed = failures = network_failures = 0 to
\* the reduction.
C26_InitFailureContributesNothing ==
  /\ [](InitNeedsCredential)
  /\ [][\A r \in DOMAIN rk :
         /\ (rk[r].pc = "pc_init" /\ rk'[r].pc # "pc_init" /\ rk'[r].inits = 0) =>
              /\ ~rk'[r].client_ready
              /\ rk'[r].pc = "reduce"
              /\ StatsOf(r)' = <<0, 0, 0>>
         /\ sent'[r] # sent[r] => ~InitFailed(r)
         /\ (InitFailed(r) /\ rk[r].pc = "reduce" /\ rk'[r].pc # "reduce") =>
              /\ StatsOf(r) = <<0, 0, 0>>
              /\ r # 0 => reduceq'[r] = <<(<<0, 0, 0>>)>>
              /\ r = 0 => summaries' =
                            Append(summaries,
                                   <<Contributed(1), Contributed(2), Contributed(3)>>)
     ]_vars

\* Rank 1 of two owned a chunk of the payload, its client failed to
\* initialise, and the summary the lead logged holds only the lead's chunk.
C26_Witness ==
  /\ SummaryLogged
  /\ run.world_size = 2
  /\ OwnCount(1, rk[1].chunk_size, rk[1].payload_len) > 0
  /\ InitFailed(1)
  /\ rk[1].pc \notin {"pc_init", "reduce"}
  /\ sent[1] = <<>>
  /\ rk[0].inits = 1
  /\ summaries[Len(summaries)] = StatsOf(0)
  /\ summaries[Len(summaries)][1] > 0

(***************************************************************************)
(* The provider of a configuration (app_config.c).  A C string is the      *)
(* sequence of its character codes, so that strcmp, strncasecmp and the    *)
(* substring search compare what the code compares; a null pointer is      *)
(* Null, which is no string.                                               *)
(***************************************************************************)
MaxConfigSteps == 3

Null == <<-1>>

ProviderDeepseek == "deepseek"
ProviderOpenai == "openai"
ProviderAnthropic == "anthropic"
ProviderZai == "zai"
Providers == {ProviderDeepseek, ProviderOpenai, ProviderAnthropic, ProviderZai}

\* "https://api.deepseek.com/chat/completions"
DEEPSEEK_DEFAULT_ENDPOINT ==
  <<104, 116, 116, 112, 115, 58, 47, 47, 97, 112, 105, 46, 100, 101,
    101, 112, 115, 101, 101, 107, 46, 99, 111, 109, 47, 99, 104, 97,
    116, 47, 99, 111, 109, 112, 108, 101, 116, 105, 111, 110, 115>>

\* "https://api.openai.com/v1/chat/completions"
OPENAI_DEFAULT_ENDPOINT ==
  <<104, 116, 116, 112, 115, 58, 47, 47, 97, 112, 105, 46, 111, 112,
    101, 110, 97, 105, 46, 99, 111, 109, 47, 118, 49, 47, 99, 104, 97,
    116, 47, 99, 111, 109, 112, 108, 101, 116, 105, 111, 110, 115>>

\* "https://api.anthropic.com/v1/messages"
ANTHROPIC_DEFAULT_ENDPOINT ==
  <<104, 116, 116, 112, 115, 58, 47, 47, 97, 112, 105, 46, 97, 110,
    116, 104, 114, 111, 112, 105, 99, 46, 99, 111, 109, 47, 118, 49,
    47, 109, 101, 115, 115, 97, 103, 101, 115>>

\* "https://open.bigmodel.cn/api/paas/v4/chat/completions"
ZAI_DEFAULT_ENDPOINT ==
  <<104, 116, 116, 112, 115, 58, 47, 47, 111, 112, 101, 110, 46, 98,
    105, 103, 109, 111, 100, 101, 108, 46, 99, 110, 47, 97, 112, 105,
    47, 112, 97, 97, 115, 47, 118, 52, 47, 99, 104, 97, 116, 47, 99,
    111, 109, 112, 108, 101, 116, 105, 111, 110, 115>>

\* "DEEPSEEK_API_KEY"
DEEPSEEK_DEFAULT_API_ENV ==
  <<68, 69, 69, 80, 83, 69, 69, 75, 95, 65, 80, 73, 95, 75, 69, 89>>

\* "OPENAI_API_KEY"
OPENAI_DEFAULT_API_ENV ==
  <<79, 80, 69, 78, 65, 73, 95, 65, 80, 73, 95, 75, 69, 89>>

\* "ANTHROPIC_API_KEY"
ANTHROPIC_DEFAULT_API_ENV ==
  <<65, 78, 84, 72, 82, 79, 80, 73, 67, 95, 65, 80, 73, 95, 75, 69, 89>>

\* "ZAI_API_KEY"
ZAI_DEFAULT_API_ENV ==
  <<90, 65, 73, 95, 65, 80, 73, 95, 75, 69, 89>>

\* "deepseek-chat"
DEEPSEEK_DEFAULT_MODEL ==
  <<100, 101, 101, 112, 115, 101, 101, 107, 45, 99, 104, 97, 116>>

\* "gpt-4o-mini"
OPENAI_DEFAULT_MODEL ==
  <<103, 112, 116, 45, 52, 111, 45, 109, 105, 110, 105>>

\* "claude-3-5-sonnet-20240620"
ANTHROPIC_DEFAULT_MODEL ==
  <<99, 108, 97, 117, 100, 101, 45, 51, 45, 53, 45, 115, 111, 110, 110,
    101, 116, 45, 50, 48, 50, 52, 48, 54, 50, 48>>

\* "glm-4-plus"
ZAI_DEFAULT_MODEL ==
  <<103, 108, 109, 45, 52, 45, 112, 108, 117, 115>>

\* The needles of provider_from_endpoint, provider_from_env_name and
\* provider_from_key_prefix.
\* "openai.com"
NeedleOpenaiCom ==
  <<111, 112, 101, 110, 97, 105, 46, 99, 111, 109>>

\* "anthropic.com"
NeedleAnthropicCom ==
  <<97, 110, 116, 104, 114, 111, 112, 105, 99, 46, 99, 111, 109>>

\* "zhipu"
NeedleZhipu ==
  <<122, 104, 105, 112, 117>>

\* "z.ai"
NeedleZDotAi ==
  <<122, 46, 97, 105>>

\* "bigmodel.cn"
NeedleBigmodel ==
  <<98, 105, 103, 109, 111, 100, 101, 108, 46, 99, 110>>

\* "OPENAI"
NeedleOPENAI ==
  <<79, 80, 69, 78, 65, 73>>

\* "ANTHROPIC"
NeedleANTHROPIC ==
  <<65, 78, 84, 72, 82, 79, 80, 73, 67>>

\* "CLAUDE"
NeedleCLAUDE ==
  <<67, 76, 65, 85, 68, 69>>

\* "ZAI"
NeedleZAI ==
  <<90, 65, 73>>

\* "GLM"
NeedleGLM ==
  <<71, 76, 77>>

\* "sk-ant-"
PrefixSkAnt ==
  <<115, 107, 45, 97, 110, 116, 45>>

\* "sk-claude"
PrefixSkClaude ==
  <<115, 107, 45, 99, 108, 97, 117, 100, 101>>

\* "anthropic"
NeedleAnthropicLower ==
  <<97, 110, 116, 104, 114, 111, 112, 105, 99>>

\* "gk-"
PrefixGk ==
  <<103, 107, 45>>

\* "glm-"
PrefixGlm ==
  <<103, 108, 109, 45>>

\* "zai"
NeedleZaiLower ==
  <<122, 97, 105>>

\* "sk-aoai-"
PrefixSkAoai ==
  <<115, 107, 45, 97, 111, 97, 105, 45>>

\* "sk-az-"
PrefixSkAz ==
  <<115, 107, 45, 97, 122, 45>>

\* "openai"
NeedleOpenaiLower ==
  <<111, 112, 101, 110, 97, 105>>

\* What a user may give on the command line, in a configuration file or in
\* the environment.
\* "http://gw/v1"
UserEndpointPlain ==
  <<104, 116, 116, 112, 58, 47, 47, 103, 119, 47, 118, 49>>

\* "http://gw/OpenAI.com"
UserEndpointOpenai ==
  <<104, 116, 116, 112, 58, 47, 47, 103, 119, 47, 79, 112, 101, 110,
    65, 73, 46, 99, 111, 109>>

\* "http://z.ai"
UserEndpointZai ==
  <<104, 116, 116, 112, 58, 47, 47, 122, 46, 97, 105>>

\* "MY_KEY"
UserEnvPlain ==
  <<77, 89, 95, 75, 69, 89>>

\* "my_claude"
UserEnvClaude ==
  <<109, 121, 95, 99, 108, 97, 117, 100, 101>>

\* "sk-ant-1"
KeyAnthropic ==
  <<115, 107, 45, 97, 110, 116, 45, 49>>

\* "gk-1"
KeyZai ==
  <<103, 107, 45, 49>>

\* "sk-az-1"
KeyOpenai ==
  <<115, 107, 45, 97, 122, 45, 49>>

\* "ds-1"
KeyDeepseek ==
  <<100, 115, 45, 49>>

\* "my-model"
UserModel ==
  <<109, 121, 45, 109, 111, 100, 101, 108>>

\* tolower on one character, in the C locale.
Lower(c) == IF c >= 65 /\ c <= 90 THEN c + 32 ELSE c

\* app_config.c 14-30: needle occurs in haystack, letters compared without
\* case; false for a null haystack and for an empty needle.
strcasestr_bool(haystack, needle) ==
  IF haystack = Null \/ needle = <<>>
    THEN FALSE
    ELSE \E p \in 1 .. Len(haystack) :
           /\ p + Len(needle) - 1 <= Len(haystack)
           /\ \A i \in 1 .. Len(needle) : Lower(haystack[p + i - 1]) = Lower(needle[i])

\* strncasecmp(key, prefix, strlen(prefix)) == 0.
HasPrefix(key, prefix) ==
  /\ Len(key) >= Len(prefix)
  /\ \A i \in 1 .. Len(prefix) : Lower(key[i]) = Lower(prefix[i])

\* app_config.c 156-161.
matches(value, expected) == value # Null /\ expected # Null /\ value = expected

\* getenv: the value of the variable, or a null pointer.
getenv(environ, name) == IF name \in DOMAIN environ THEN environ[name] ELSE Null

\* app_config.c 32-43: empty strings count as absent here.
resolved_api_key(c, environ) ==
  IF c.explicit_api_key # Null /\ c.explicit_api_key # <<>>
    THEN c.explicit_api_key
  ELSE IF c.api_key_env # Null /\ c.api_key_env # <<>>
    THEN getenv(environ, c.api_key_env)
  ELSE Null

\* app_config.c 45-60.
provider_from_endpoint(endpoint) ==
  IF endpoint = Null THEN ProviderDeepseek
  ELSE IF strcasestr_bool(endpoint, NeedleOpenaiCom) THEN ProviderOpenai
  ELSE IF strcasestr_bool(endpoint, NeedleAnthropicCom) THEN ProviderAnthropic
  ELSE IF \/ strcasestr_bool(endpoint, NeedleZhipu)
          \/ strcasestr_bool(endpoint, NeedleZDotAi)
          \/ strcasestr_bool(endpoint, NeedleBigmodel) THEN ProviderZai
  ELSE ProviderDeepseek

\* app_config.c 62-76.
provider_from_env_name(env) ==
  IF env = Null THEN ProviderDeepseek
  ELSE IF strcasestr_bool(env, NeedleOPENAI) THEN ProviderOpenai
  ELSE IF strcasestr_bool(env, NeedleANTHROPIC) \/ strcasestr_bool(env, NeedleCLAUDE)
    THEN ProviderAnthropic
  ELSE IF strcasestr_bool(env, NeedleZAI) \/ strcasestr_bool(env, NeedleGLM)
    THEN ProviderZai
  ELSE ProviderDeepseek

\* app_config.c 78-98.
provider_from_key_prefix(key) ==
  IF key = Null \/ key = <<>> THEN ProviderDeepseek
  ELSE IF \/ HasPrefix(key, PrefixSkAnt) \/ HasPrefix(key, PrefixSkClaude)
          \/ strcasestr_bool(key, NeedleAnthropicLower) THEN ProviderAnthropic
  ELSE IF \/ HasPrefix(key, PrefixGk) \/ HasPrefix(key, PrefixGlm)
          \/ strcasestr_bool(key, NeedleZhipu)
          \/ strcasestr_bool(key, NeedleZaiLower) THEN ProviderZai
  ELSE IF \/ HasPrefix(key, PrefixSkAoai) \/ HasPrefix(key, PrefixSkAz)
          \/ strcasestr_bool(key, NeedleOpenaiLower) THEN ProviderOpenai
  ELSE ProviderDeepseek

\* The defaults of a provider (deepseek.h 9-32).
DefaultEndpoint(p) ==
  CASE p = ProviderDeepseek -> DEEPSEEK_DEFAULT_ENDPOINT
    [] p = ProviderOpenai -> OPENAI_DEFAULT_ENDPOINT
    [] p = ProviderAnthropic -> ANTHROPIC_DEFAULT_ENDPOINT
    [] p = ProviderZai -> ZAI_DEFAULT_ENDPOINT

DefaultApiEnv(p) ==
  CASE p = ProviderDeepseek -> DEEPSEEK_DEFAULT_API_ENV
    [] p = ProviderOpenai -> OPENAI_DEFAULT_API_ENV
    [] p = ProviderAnthropic -> ANTHROPIC_DEFAULT_API_ENV
    [] p = ProviderZai -> ZAI_DEFAULT_API_ENV

DefaultModel(p) ==
  CASE p = ProviderDeepseek -> DEEPSEEK_DEFAULT_MODEL
    [] p = ProviderOpenai -> OPENAI_DEFAULT_MODEL
    [] p = ProviderAnthropic -> ANTHROPIC_DEFAULT_MODEL
    [] p = ProviderZai -> ZAI_DEFAULT_MODEL

\* app_config.c 339-437: the endpoint and the variable name are replaced
\* when null or equal to the previous provider's default, the model only
\* when null.  (anthropic_version is never null after config_defaults.)
config_apply_provider(c, provider, lock) ==
  IF c.provider_locked /\ ~lock
    THEN c
    ELSE [c EXCEPT
            !.provider = provider,
            !.provider_locked = IF lock THEN TRUE ELSE @,
            !.api_endpoint = IF @ = Null \/ matches(@, DefaultEndpoint(c.provider))
                               THEN DefaultEndpoint(provider) ELSE @,
            !.api_key_env = IF @ = Null \/ matches(@, DefaultApiEnv(c.provider))
                              THEN DefaultApiEnv(provider) ELSE @,
            !.model = IF @ = Null THEN DefaultModel(provider) ELSE @]

\* app_config.c 439-441.
config_set_provider(c, provider) == config_apply_provider(c, provider, TRUE)

\* The provider the three sources point to, the variable name first.
DetectedEnvFirst(c, environ) ==
  LET from_env == provider_from_env_name(c.api_key_env)
      from_endpoint == provider_from_endpoint(c.api_endpoint)
  IN IF from_env # ProviderDeepseek THEN from_env
     ELSE IF from_endpoint # ProviderDeepseek THEN from_endpoint
     ELSE provider_from_key_prefix(resolved_api_key(c, environ))

\* app_config.c 105-111: the endpoint, else the variable name, else the key.
Detected(c, environ) ==
  LET from_endpoint == provider_from_endpoint(c.api_endpoint)
      from_env == provider_from_env_name(c.api_key_env)
  IN IF from_endpoint # ProviderDeepseek THEN from_endpoint
     ELSE IF from_env # ProviderDeepseek THEN from_env
     ELSE provider_from_key_prefix(resolved_api_key(c, environ))

\* app_config.c 100-116.
config_autodetect_provider(c, environ) ==
  IF c.provider_locked
    THEN c
    ELSE IF Detected(c, environ) # ProviderDeepseek
           THEN config_apply_provider(c, Detected(c, environ), FALSE)
           ELSE c

\* app_config.c 222-270, the fields a provider touches.
config_defaults ==
  [api_endpoint |-> DEEPSEEK_DEFAULT_ENDPOINT,
   api_key_env |-> DEEPSEEK_DEFAULT_API_ENV,
   explicit_api_key |-> Null,
   model |-> Null,
   provider |-> ProviderDeepseek,
   provider_locked |-> FALSE]

UserEndpoints == {UserEndpointPlain, UserEndpointOpenai, UserEndpointZai,
                  DEEPSEEK_DEFAULT_ENDPOINT}
UserEnvNames == {UserEnvPlain, UserEnvClaude, <<>>}
UserKeys == {KeyZai, KeyDeepseek, <<>>}
UserModels == {UserModel}

\* The environments a run may start in: no key variable is set, the default
\* variable holds a key, or the user's variable does.
EnvVars == {DEEPSEEK_DEFAULT_API_ENV, UserEnvPlain}
Environments ==
  {[n \in EnvVars |-> Null],
   [n \in EnvVars |-> IF n = DEEPSEEK_DEFAULT_API_ENV THEN KeyAnthropic ELSE Null],
   [n \in EnvVars |-> IF n = UserEnvPlain THEN KeyOpenai ELSE Null]}

ProviderInit ==
  /\ CursorIdle
  /\ SendIdle
  /\ MainIdle
  /\ SessionIdle
  /\ GatherIdle
  /\ JsonIdle
  /\ ExitIdle
  /\ \E environ \in Environments :
       pconf = [config |-> config_defaults, environ |-> environ,
                user |-> {}, applied |-> 0, steps |-> 0, last |-> "config_defaults"]

ConfigStep(config, user, applied, last) ==
  /\ pconf.steps < MaxConfigSteps
  /\ pconf' = [pconf EXCEPT !.config = config, !.user = user, !.applied = applied,
                            !.steps = @ + 1, !.last = last]
  /\ UNCHANGED <<cvars, svars, mvars, rvars, gvars, jvars, evars>>

\* config_record_rank 283-290 (main.c 807).
ProviderRecordRank ==
  /\ ConfigStep(config_autodetect_provider(pconf.config, pconf.environ), pconf.user,
                IF ~pconf.config.provider_locked
                   /\ Detected(pconf.config, pconf.environ) # ProviderDeepseek
                  THEN pconf.applied + 1 ELSE pconf.applied,
                "config_record_rank")

\* --api-provider (cli.c 363-371) and the api_provider key (app_config.c 657-663).
ProviderSet ==
  /\ \E p \in Providers :
       ConfigStep(config_set_provider(pconf.config, p), pconf.user,
                  pconf.applied + 1, "config_set_provider")

\* --api-endpoint (cli.c 253-255) and the api_endpoint key (app_config.c 485-486).
ProviderEndpoint ==
  /\ \E e \in UserEndpoints :
       ConfigStep([pconf.config EXCEPT !.api_endpoint = e],
                  pconf.user \cup {"api_endpoint"}, pconf.applied, "api_endpoint")

\* --api-key-env (cli.c 256-258) and the api_key_env key (app_config.c 487-488).
ProviderKeyEnv ==
  /\ \E n \in UserEnvNames :
       ConfigStep([pconf.config EXCEPT !.api_key_env = n],
                  pconf.user \cup {"api_key_env"}, pconf.applied, "api_key_env")

\* --api-key (cli.c 435-437) and the api_key key (app_config.c 489-490).
ProviderKey ==
  /\ \E k \in UserKeys :
       ConfigStep([pconf.config EXCEPT !.explicit_api_key = k],
                  pconf.user, pconf.applied, "api_key")

\* --model (cli.c 319-321) and the model key (app_config.c 514-515).
ProviderModel ==
  /\ \E m \in UserModels :
       ConfigStep([pconf.config EXCEPT !.model = m],
                  pconf.user \cup {"model"}, pconf.applied, "model")

NextProvider ==
  \/ ProviderRecordRank
  \/ ProviderSet
  \/ ProviderEndpoint
  \/ ProviderKeyEnv
  \/ ProviderKey
  \/ ProviderModel

SpecProvider == ProviderInit /\ [][NextProvider]_vars

\* The three fields a provider has defaults for, and those defaults.
ProviderFields == {"api_endpoint", "api_key_env", "model"}

FieldOf(c, f) ==
  CASE f = "api_endpoint" -> c.api_endpoint
    [] f = "api_key_env" -> c.api_key_env
    [] f = "model" -> c.model

DefaultOf(f, p) ==
  CASE f = "api_endpoint" -> DefaultEndpoint(p)
    [] f = "api_key_env" -> DefaultApiEnv(p)
    [] f = "model" -> DefaultModel(p)

\* This step applied a provider: config_apply_provider got past its lock test.
ProviderApplied == pconf'.applied = pconf.applied + 1

\* C27 as stated: applying a provider replaces the endpoint, the variable
\* name and the model exactly when the field is unset or still holds the
\* previous provider's default, and once a provider has been applied every
\* field the user never set holds the current provider's default.
C27_DefaultsFollowProvider ==
  /\ [](pconf.applied >= 1 =>
         \A f \in ProviderFields \ pconf.user :
           FieldOf(pconf.config, f) = DefaultOf(f, pconf.config.provider))
  /\ [][ProviderApplied =>
         \A f \in ProviderFields :
           LET old == FieldOf(pconf.config, f) IN
           FieldOf(pconf.config, f)' =
             IF old = Null \/ old = DefaultOf(f, pconf.config.provider)
               THEN DefaultOf(f, pconf.config.provider)'
               ELSE old]_vars

\* The provider the endpoint points to if it points to one, else the one the
\* variable name points to, else the one the key points to; "deepseek" when
\* none does.
Indicated(c, environ) ==
  LET by_endpoint == provider_from_endpoint(c.api_endpoint)
      by_env_name == provider_from_env_name(c.api_key_env)
      by_key == provider_from_key_prefix(resolved_api_key(c, environ))
  IN CASE by_endpoint # ProviderDeepseek -> by_endpoint
       [] by_endpoint = ProviderDeepseek /\ by_env_name # ProviderDeepseek -> by_env_name
       [] OTHER -> by_key

\* C28: auto-detection takes the provider the endpoint indicates if it
\* indicates one, otherwise the one the variable name indicates, otherwise
\* the one the key indicates, and nothing else decides it; once a provider
\* is locked by an explicit selection, auto-detection changes neither the
\* provider nor the endpoint, the variable name or the model.
C28_DetectionPriority ==
  [][pconf'.last = "config_record_rank" =>
       LET c == pconf.config
           chosen == Indicated(c, pconf.environ)
       IN IF c.provider_locked
            THEN pconf'.config = c
            ELSE IF chosen # ProviderDeepseek
                   THEN pconf'.config.provider = chosen
                   ELSE pconf'.config = c]_vars

\* The user's endpoint names openai.com and the user's variable name says
\* claude; auto-detection has gone by the endpoint.
C28_Witness ==
  /\ pconf # <<>>
  /\ pconf.last = "config_record_rank"
  /\ ~pconf.config.provider_locked
  /\ pconf.config.api_endpoint = UserEndpointOpenai
  /\ pconf.config.api_key_env = UserEnvClaude
  /\ pconf.config.provider = ProviderOpenai
  /\ pconf.config.model = OPENAI_DEFAULT_MODEL

(***************************************************************************)
(* json_escape (api_client.c) on a chunk of bytes, and the reading of a    *)
(* JSON string body back into bytes (RFC 8259, section 7).  A byte is its  *)
(* value 0 .. 255.                                                         *)
(***************************************************************************)
MaxTextLen == 3

\* '"', '\', LF, CR, TAB, NUL, 0x01, 0x1f, 'n', 'u', '0', DEL, 0xc8.
TextBytes == {34, 92, 10, 13, 9, 0, 1, 31, 110, 117, 48, 127, 200}

Texts == UNION {[1 .. n -> TextBytes] : n \in 0 .. MaxTextLen}

\* The digit snprintf's %x writes for a value 0 .. 15.
HexDigit(v) == IF v < 10 THEN 48 + v ELSE 87 + v

\* json_escape 58-73: the bytes byte ch adds to the length.
EscapeExtra(ch) ==
  IF ch = 92 \/ ch = 34 \/ ch = 10 \/ ch = 13 \/ ch = 9 THEN 1
  ELSE IF ch < 32 THEN 5
  ELSE 0

\* An escape that leaves the backslash as it is.
EscapeByteRawBackslash(ch) ==
  CASE ch = 34 -> <<92, 34>>
    [] ch = 10 -> <<92, 110>>
    [] ch = 13 -> <<92, 114>>
    [] ch = 9 -> <<92, 116>>
    [] OTHER -> IF ch < 32
                  THEN <<92, 117, HexDigit((ch \div 4096) % 16),
                         HexDigit((ch \div 256) % 16), HexDigit((ch \div 16) % 16),
                         HexDigit(ch % 16)>>
                  ELSE <<ch>>

\* json_escape 82-110: what one byte becomes; "\u%04x" for a control byte.
EscapeByte(ch) ==
  CASE ch = 92 -> <<92, 92>>
    [] ch = 34 -> <<92, 34>>
    [] ch = 10 -> <<92, 110>>
    [] ch = 13 -> <<92, 114>>
    [] ch = 9 -> <<92, 116>>
    [] OTHER -> IF ch < 32
                  THEN <<92, 117, HexDigit((ch \div 4096) % 16),
                         HexDigit((ch \div 256) % 16), HexDigit((ch \div 16) % 16),
                         HexDigit(ch % 16)>>
                  ELSE <<ch>>

RECURSIVE EscapeFrom(_, _)
EscapeFrom(text, i) ==
  IF i > Len(text) THEN <<>> ELSE EscapeByte(text[i]) \o EscapeFrom(text, i + 1)

RECURSIVE ExtraFrom(_, _)
ExtraFrom(text, i) ==
  IF i > Len(text) THEN 0 ELSE EscapeExtra(text[i]) + ExtraFrom(text, i + 1)

\* json_escape 47-115: the escaped bytes before the terminating NUL, and the
\* size of the buffer allocated for them.
json_escape(text) ==
  IF Len(text) = 0
    THEN [escaped |-> <<>>, total |-> 1]
    ELSE [escaped |-> EscapeFrom(text, 1), total |-> Len(text) + ExtraFrom(text, 1) + 1]

\* The value of a hexadecimal digit, -1 for any other byte.
HexValue(c) ==
  IF c >= 48 /\ c <= 57 THEN c - 48
  ELSE IF c >= 97 /\ c <= 102 THEN c - 87
  ELSE IF c >= 65 /\ c <= 70 THEN c - 55
  ELSE -1

\* The UTF-8 bytes of a code point of the basic plane.
Utf8(cp) ==
  IF cp < 128 THEN <<cp>>
  ELSE IF cp < 2048 THEN <<192 + (cp \div 64), 128 + (cp % 64)>>
  ELSE <<224 + (cp \div 4096), 128 + ((cp \div 64) % 64), 128 + (cp % 64)>>

\* The byte a two-character escape stands for, -1 if there is no such escape.
SimpleEscape(c) ==
  CASE c = 34 -> 34
    [] c = 92 -> 92
    [] c = 47 -> 47
    [] c = 98 -> 8
    [] c = 102 -> 12
    [] c = 110 -> 10
    [] c = 114 -> 13
    [] c = 116 -> 9
    [] OTHER -> -1

Malformed == [ok |-> FALSE, bytes |-> <<>>]

\* The bytes a JSON string body from position i on stands for; malformed on
\* a raw quote, a raw control byte or a backslash that starts no escape.
RECURSIVE JsonUnescapeFrom(_, _)
JsonUnescapeFrom(body, i) ==
  IF i > Len(body) THEN [ok |-> TRUE, bytes |-> <<>>]
  ELSE IF body[i] = 34 \/ body[i] < 32 THEN Malformed
  ELSE IF body[i] # 92
    THEN LET rest == JsonUnescapeFrom(body, i + 1) IN
         IF rest.ok THEN [ok |-> TRUE, bytes |-> <<body[i]>> \o rest.bytes]
         ELSE Malformed
  ELSE IF i + 1 > Len(body) THEN Malformed
  ELSE IF body[i + 1] = 117
    THEN IF i + 5 > Len(body) THEN Malformed
         ELSE IF \E k \in 2 .. 5 : HexValue(body[i + k]) = -1 THEN Malformed
         ELSE LET cp == 4096 * HexValue(body[i + 2]) + 256 * HexValue(body[i + 3])
                        + 16 * HexValue(body[i + 4]) + HexValue(body[i + 5])
                  rest == JsonUnescapeFrom(body, i + 6)
              IN IF rest.ok THEN [ok |-> TRUE, bytes |-> Utf8(cp) \o rest.bytes]
                 ELSE Malformed
  ELSE IF SimpleEscape(body[i + 1]) = -1 THEN Malformed
  ELSE LET rest == JsonUnescapeFrom(body, i + 2) IN
       IF rest.ok
         THEN [ok |-> TRUE, bytes |-> <<SimpleEscape(body[i + 1])>> \o rest.bytes]
         ELSE Malformed

JsonUnescape(body) == JsonUnescapeFrom(body, 1)

JsonInit ==
  /\ ExitIdle
  /\ CursorIdle
  /\ SendIdle
  /\ MainIdle
  /\ SessionIdle
  /\ GatherIdle
  /\ ProviderIdle
  /\ \E text \in Texts :
       json = [pc |-> "text", text |-> text, escaped |-> <<>>, total |-> 0,
               decoded |-> Malformed]

\* build_payload_* (api_client.c 121, 152, 176): the chunk is escaped.
JsonEscape ==
  /\ json.pc = "text"
  /\ json' = [json EXCEPT !.pc = "escaped",
                          !.escaped = json_escape(json.text).escaped,
                          !.total = json_escape(json.text).total]
  /\ UNCHANGED <<cvars, svars, mvars, rvars, gvars, pvars, evars>>

\* The receiver of the request reads the string back.
JsonDecode ==
  /\ json.pc = "escaped"
  /\ json' = [json EXCEPT !.pc = "decoded", !.decoded = JsonUnescape(json.escaped)]
  /\ UNCHANGED <<cvars, svars, mvars, rvars, gvars, pvars, evars>>

NextJson == JsonEscape \/ JsonDecode

SpecJson == JsonInit /\ [][NextJson]_vars

\* A quote in the body that no backslash escapes, from position i on.
RECURSIVE HasBareQuote(_, _)
HasBareQuote(body, i) ==
  IF i > Len(body) THEN FALSE
  ELSE IF body[i] = 34 THEN TRUE
  ELSE IF body[i] = 92 THEN HasBareQuote(body, i + 2)
  ELSE HasBareQuote(body, i + 1)

\* C29: for every byte string, reading json_escape's output back by the
\* JSON rules gives the same bytes, and the output holds no quote outside an
\* escape and no byte below 0x20.
C29_EscapeRoundTrip ==
  /\ json.pc # "text" =>
       /\ ~HasBareQuote(json.escaped, 1)
       /\ \A i \in DOMAIN json.escaped : json.escaped[i] >= 32
       /\ Len(json.escaped) + 1 = json.total
  /\ json.pc = "decoded" =>
       /\ json.decoded.ok
       /\ json.decoded.bytes = json.text

\* A backslash, the byte 0x01 and a quote went out as \\, \u0001 and \" and
\* came back.
C29_Witness ==
  /\ json # <<>>
  /\ json.pc = "decoded"
  /\ json.text = <<92, 1, 34>>
  /\ json.escaped = <<92, 92, 92, 117, 48, 48, 48, 49, 92, 34>>
  /\ json.decoded = [ok |-> TRUE, bytes |-> <<92, 1, 34>>]

\* C30: with chunk_size = 0 chunk_cursor_next returns 0 on its first call,
\* whatever the rank, the total length and the world size: it hands out no
\* range and leaves the cursor where it was, so the caller's loop ends at
\* once with no chunk.
C30_ZeroChunkSizeNoWork ==
  /\ [](\A r \in DOMAIN cursors :
          cursors[r].chunk_size = 0 =>
            /\ cursors[r].cursor = 0
            /\ \A k \in DOMAIN returned : returned[k].rank # r)
  /\ [][\A r \in DOMAIN cursors :
          (cursors[r].chunk_size = 0 /\ ENABLED CursorNext(r) /\ CursorNext(r)) =>
            /\ ~chunk_cursor_next(cursors[r]).ok
            /\ cursors' = cursors
            /\ returned' = returned
            /\ exhausted' = exhausted \cup {r}]_vars

\* Two ranks over a payload of MaxTotal bytes with chunk_size 0: both have
\* called chunk_cursor_next once, and nothing was handed out.
C30_Witness ==
  /\ DOMAIN cursors = {0, 1}
  /\ \A r \in {0, 1} : cursors[r].chunk_size = 0 /\ cursors[r].total_length > 0
  /\ exhausted = {0, 1}
  /\ returned = <<>>
  /\ \A r \in {0, 1} : cursors[r].cursor = 0

\* The smaller of a chunk's unclamped end and the total length.
ClampedEnd(start, chunk_size, total_length) ==
  IF start + chunk_size < total_length THEN start + chunk_size ELSE total_length

\* C31 as stated, for chunk_size > 0: the call made when the local counter is
\* c returns index rank + c * world_size, start = index * chunk_size and
\* end = min(start + chunk_size, total_length) and adds one to the counter;
\* it returns 0 exactly when start >= total_length, leaving the cursor as it
\* was, and a cursor that has returned 0 returns 0 again.
C31_StridedRanges ==
  /\ [](\A r \in exhausted : ~chunk_cursor_next(cursors[r]).ok)
  /\ [][\A r \in DOMAIN cursors :
          (cursors[r].chunk_size > 0 /\ CursorNext(r)) =>
            LET c == cursors[r].cursor
                index == r + c * cursors[r].world_size
                start == index * cursors[r].chunk_size
            IN IF start >= cursors[r].total_length
                 THEN /\ cursors' = cursors
                      /\ returned' = returned
                      /\ exhausted' = exhausted \cup {r}
                 ELSE /\ returned' =
                           Append(returned,
                                  [rank |-> r, chunk_index |-> index, start |-> start,
                                   end |-> ClampedEnd(start, cursors[r].chunk_size,
                                                      cursors[r].total_length)])
                      /\ cursors'[r].cursor = c + 1
                      /\ exhausted' = exhausted]_vars

\* Rank q is done with stream_responses_after_completion for the turn rank 0
\* is in: it returned from it, or never entered it, and has nothing posted.
StreamLeft(q) ==
  /\ rk[q].wait = "none"
  /\ \/ rk[q].turn > rk[0].turn
     \/ rk[q].turn = rk[0].turn /\ rk[q].pc \in {"finish", "repl_after"}
     \/ rk[q].pc \in {"complete", "exit"}

\* Rank 0 sits in the MPI_Recv of line 485 for a length that its source
\* will not send.
LeadWaitsForever ==
  IF rk[0].pc = "stream_recv"
    THEN chan[rk[0].source] = <<>> /\ StreamLeft(rk[0].source)
    ELSE FALSE

\* A worker's stream message is posted and rank 0 has left the collection
\* of the turn.
MessageUnmatched ==
  \E q \in DOMAIN chan :
    chan[q] # <<>> /\ rk[0].pc \in {"finish", "repl_after", "repl_top", "complete", "exit"}

\* C32 as stated: in a REPL run of two or more ranks, whatever happens to a
\* worker's client, rank 0's collection of the streamed responses is never
\* left waiting for a worker that will not send, and no worker's stream
\* message is left without its receive.
C32_StreamCompletes ==
  (run.repl_mode /\ run.world_size >= 2) => ~LeadWaitsForever /\ ~MessageUnmatched

\* Rank 0 has captured the termination sentinel: its 'running' is 0.
SentinelCaptured == run.repl_mode /\ rk[0].running = 0

\* Rank q has taken a 'running' flag of 0 from the MPI_Bcast of line 755.
ToldToStop(q) == run.repl_mode /\ rk[q].running = 0

\* C33: a rank that takes running = 0 from the broadcast leaves the loop in
\* that iteration: it does not run the coordinator, sends no chunk and adds
\* nothing to the history; and once rank 0 has captured the sentinel no rank
\* is left waiting: until every rank has finished, some rank can take a step.
C33_SentinelEndsSession ==
  /\ [](\A q \in DOMAIN rk : ToldToStop(q) => rk[q].pc \in {"complete", "exit"})
  /\ [](SentinelCaptured =>
         (ENABLED Next \/ \A q \in DOMAIN rk : rk[q].pc = "exit"))
  /\ [][SentinelCaptured =>
         /\ sent'[0] = sent[0]
         /\ summaries' = summaries
         /\ repl'.history = repl.history]_vars
  /\ [][\A q \in DOMAIN rk : ToldToStop(q)' => sent'[q] = sent[q]]_vars

\* One pass of the autoscaler and of the chunk adjustment over a
\* configuration, for a payload of 'length' bytes.
SinglePass(c, length) ==
  maybe_adjust_chunk_from_tasks(maybe_autoscale_payload(c, length), length)

\* C34 as stated: the task target and the chunk size a gather leaves behind
\* are those of one pass over the configuration as finalized at start, so
\* that they depend on the payload length alone and do not build up over
\* the turns of a session.
C34_AutoscaleSinglePass ==
  (gather.pc = "capture" /\ gather.gathers >= 1 /\ gather.length > 0) =>
    /\ gather.config.target_tasks = SinglePass(gather.finalized, gather.length).target_tasks
    /\ gather.config.chunk_size = SinglePass(gather.finalized, gather.length).chunk_size

(***************************************************************************)
(* SpecLoop: the chunk loop of process_chunks on its own.  Every rank      *)
(* stands at the entry of process_chunks in the first turn of a REPL       *)
(* session, the payload and the chunk size broadcast, and runs its loop up *)
(* to the reduction.  The chunk sizes include one of half the size_t       *)
(* range, which --chunk-size accepts.                                      *)
(***************************************************************************)
MaxLoopSends == 4

LoopChunkSizes == {MinChunkSize, SizeMod \div 2}

LoopPayloadLens == {1, 200}

\* execute_payload 668-716 done: the rank holds the payload's length and
\* the lead's chunk_size and max_request_bytes.
LoopRank(r, ws, cs, len) ==
  [RankInit(r, TRUE, ws, cs) EXCEPT !.pc = "pc_init", !.ready = 1,
                                    !.payload_len = len, !.prompt_len = len]

LoopInit ==
  /\ GatherIdle
  /\ ProviderIdle
  /\ JsonIdle
  /\ ExitIdle
  /\ CursorIdle
  /\ SendIdle
  /\ SessionIdle
  /\ \E ws \in 1 .. MaxWorld, limit \in -1 .. MaxResets, cs \in LoopChunkSizes,
        len \in LoopPayloadLens, dry_run \in BOOLEAN :
       /\ run = [repl_mode |-> TRUE, world_size |-> ws, mpi_eager |-> TRUE,
                 network_retry_limit |-> FinalizeRetryLimit(limit),
                 chunk_size_option |-> cs, dry_run |-> dry_run,
                 target_tasks |-> 0, response_files_enabled |-> TRUE]
       /\ rk = [r \in 0 .. ws - 1 |-> LoopRank(r, ws, cs, len)]
       /\ sent = [r \in 0 .. ws - 1 |-> <<>>]
       /\ bcastq = [r \in 1 .. ws - 1 |-> <<>>]
       /\ reduceq = [r \in 1 .. ws - 1 |-> <<>>]
       /\ chan = [r \in 1 .. ws - 1 |-> <<>>]
  /\ summaries = <<>>
  /\ repl = [history |-> <<>>, repl_response |-> <<>>, runs |-> 0]

\* One step of a rank's loop, while it has made fewer than MaxLoopSends sends.
LoopStep(r) ==
  /\ r \in DOMAIN sent
  /\ Len(sent[r]) < MaxLoopSends
  /\ \/ ProcessInit(r)
     \/ SendChunk(r)

NextLoop == \E r \in 0 .. MaxWorld - 1 : LoopStep(r)

SpecLoop == LoopInit /\ [][NextLoop]_vars

\* Rank r is in its chunk loop or has just left it.
InLoop(r) == rk[r].entered /\ rk[r].pc \in {"send", "reduce"}

\* The number of chunks of the payload that fall to rank r.
Assigned(r) == OwnCount(r, rk[r].cursor.chunk_size, rk[r].cursor.total_length)

\* The number of rank r's sends that returned 0; a chunk has at most one.
Succeeded(r) == Cardinality({k \in DOMAIN sent[r] : sent[r][k].result = ErrNone})

\* C35 as stated: in a worker's chunk loop network_failures <= failures <=
\* processed <= the number of chunks assigned to the worker, and processed
\* - failures is the number of its chunks whose send succeeded.
C35_CountersOrdered ==
  \A r \in DOMAIN rk :
    InLoop(r) =>
      /\ rk[r].network_failures <= rk[r].failures
      /\ rk[r].failures <= rk[r].processed
      /\ rk[r].processed <= Assigned(r)
      /\ rk[r].processed - rk[r].failures = Succeeded(r)

\* The chunk indices rank r has passed to api_client_send and is done with,
\* the loop having gone past them without a failed rebuild.
Completed(r) ==
  IF rk[r].aborted \/ rk[r].pc = "send"
    THEN SentChunks(r) \ {rk[r].chunk.chunk_index}
    ELSE SentChunks(r)

\* The sends of rank r that were failures counted against their chunk.
CountedFailures(r, results) ==
  Cardinality({k \in DOMAIN sent[r] :
                 /\ sent[r][k].chunk_index \in Completed(r)
                 /\ sent[r][k].result \in results
                 /\ \A j \in DOMAIN sent[r] :
                      sent[r][j].chunk_index = sent[r][k].chunk_index => j <= k})

\* C36: the chunk a worker was on when the rebuild of its client failed is
\* counted in none of processed, failures and network_failures and has no
\* persisted response; every other chunk it sent is counted in processed
\* once, and in the failure counters only when its last send failed.
C36_InterruptedChunkUncounted ==
  \A r \in DOMAIN rk :
    InLoop(r) =>
      /\ rk[r].processed = Cardinality(Completed(r))
      /\ rk[r].failures = CountedFailures(r, {ErrNetwork, ErrHttp, ErrPermanent})
      /\ rk[r].network_failures = CountedFailures(r, {ErrNetwork})
      /\ rk[r].aborted =>
           \A k \in DOMAIN sent[r] :
             sent[r][k].chunk_index = rk[r].chunk.chunk_index =>
               /\ sent[r][k].result = ErrNetwork
               /\ sent[r][k].path = NoPath

\* A worker whose rebuild failed on its second chunk, the first one done.
C36_Witness ==
  \E r \in DOMAIN rk :
    /\ rk[r].aborted
    /\ rk[r].pc = "reduce"
    /\ rk[r].processed = 1
    /\ Len(sent[r]) = 2

\* C37 as stated: whatever the backend answers, a worker's chunk loop makes
\* at most (number of its chunks) * (network_retry_limit + 1) calls of
\* api_client_send, after which it has ended.
C37_LoopBounded ==
  \A r \in DOMAIN rk :
    InLoop(r) =>
      /\ Len(sent[r]) <= Assigned(r) * (run.network_retry_limit + 1)
      /\ Len(sent[r]) = Assigned(r) * (run.network_retry_limit + 1) => rk[r].pc = "reduce"

\* Rank r is inside process_chunks, past the first api_client_init.
InProcessChunks(r) ==
  rk[r].entered /\ rk[r].pc \in {"send", "reduce", "stream", "stream_recv", "finish"}

\* C38: api_client_send and api_client_cleanup are called only on a client
\* whose latest api_client_init succeeded; inside process_chunks the
\* successful inits are at most one ahead of the cleanups, and exactly one
\* ahead while the client is ready; once process_chunks has returned every
\* successful init has had exactly one cleanup.
C38_InitsMatchCleanups ==
  /\ [](\A r \in DOMAIN rk :
          /\ rk[r].pc = "send" => rk[r].client_ready
          /\ InProcessChunks(r) =>
                rk[r].inits = rk[r].cleanups + (IF rk[r].client_ready THEN 1 ELSE 0)
          /\ (rk[r].entered /\ ~InProcessChunks(r)) => rk[r].inits = rk[r].cleanups)
  /\ [][\A r \in DOMAIN rk :
          /\ Len(sent'[r]) > Len(sent[r]) => rk[r].client_ready
          /\ rk'[r].cleanups > rk[r].cleanups =>
                rk[r].client_ready /\ rk'[r].cleanups = rk[r].cleanups + 1]_vars

\* A rank has returned from process_chunks after a reset whose rebuild
\* succeeded: two inits, two cleanups.
C38_Witness ==
  \E r \in DOMAIN rk :
    /\ rk[r].entered
    /\ rk[r].pc \in {"repl_after", "complete"}
    /\ rk[r].inits = 2
    /\ rk[r].cleanups = 2

\* Rank r takes the readiness flag of a REPL iteration in this step.
TakesReadyFlag(r) == rk[r].pc = "repl_ready" /\ rk'[r] # rk[r] /\ rk[r].wait = "none"

\* C39: in a REPL iteration whose capture failed every rank takes
\* ready_flag = 0 and skips the iteration: it does not call execute_payload,
\* nothing is sent, no summary is logged, the history and its turn counter
\* stay as they are, and it is at the top of the loop again, still running.
\* A rank leaves the session only on running = 0, which the lead sets only
\* on a captured prompt.
C39_CaptureFailureSkipsTurn ==
  /\ [][\A r \in DOMAIN rk :
          (run.repl_mode /\ TakesReadyFlag(r)) =>
            /\ (r = 0 /\ rk[0].prompt_len = 0) => BcastIn(0, rk[0].ready) = 0
            /\ (r # 0 /\ ~run.mpi_eager) => BcastIn(r, rk[r].ready) = rk[0].ready
            /\ BcastIn(r, rk[r].ready) = 0 =>
                  /\ rk'[r].pc = "repl_top"
                  /\ rk'[r].turn = rk[r].turn
                  /\ rk'[r].running = 1
                  /\ rk'[r].entered = rk[r].entered
                  /\ sent' = sent
                  /\ summaries' = summaries
                  /\ repl'.history = repl.history]_vars
  /\ [][(run.repl_mode /\ rk[0].running = 1 /\ rk'[0].running = 0) =>
          rk'[0].prompt_len > 0]_vars
  /\ [](run.repl_mode =>
          \A r \in DOMAIN rk : rk[r].pc \in {"complete", "exit"} => rk[r].running = 0)

\* In a two-rank session whose first capture failed, the worker has taken
\* the flag and is at the top of the loop again, the lead still in the
\* broadcast of the flag.
C39_Witness ==
  /\ run.repl_mode
  /\ run.world_size = 2
  /\ rk[0].pc = "repl_top" /\ rk[0].wait = "bcast" /\ rk[0].turn = 1
  /\ rk[1].pc = "repl_top" /\ rk[1].turn = 1 /\ ~rk[1].entered
  /\ bcastq[1] = <<>>

(***************************************************************************)
(* SpecSentinel: run_repl_session tests a captured prompt with             *)
(* repl_should_exit.  A prompt is a string of bytes followed by its        *)
(* terminating NUL, as file_loader.c and string_buffer.c leave it.         *)
(***************************************************************************)
\* isspace() in the "C" locale.
isspace(c) == c \in {32, 9, 10, 11, 12, 13}

\* The byte at position i of a C string, counted from 1; the terminator
\* follows the last byte.
ByteAt(text, i) == IF i <= Len(text) THEN text[i] ELSE 0

\* while (len > 0 && isspace(text[len - 1])) len--;
RECURSIVE TrimEnd(_, _)
TrimEnd(text, len) ==
  IF len > 0 /\ isspace(text[len]) THEN TrimEnd(text, len - 1) ELSE len

\* while (start < len && isspace(text[start])) start++;
RECURSIVE TrimStart(_, _, _)
TrimStart(text, start, len) ==
  IF start < len /\ isspace(text[start + 1]) THEN TrimStart(text, start + 1, len)
  ELSE start

\* strncasecmp(text + start, literal, n) == 0, from the i-th byte on: the
\* bytes are compared without case up to n of them or up to a NUL in both.
RECURSIVE SameFrom(_, _, _, _, _)
SameFrom(text, start, literal, n, i) ==
  IF i > n THEN TRUE
  ELSE LET a == Lower(ByteAt(text, start + i))
           b == Lower(ByteAt(literal, i))
       IN  IF a # b THEN FALSE
           ELSE IF a = 0 THEN TRUE
           ELSE SameFrom(text, start, literal, n, i + 1)

strncasecmp_eq(text, start, literal, n) == SameFrom(text, start, literal, n, 1)

LitQuit == <<58, 113, 117, 105, 116>>
LitExit == <<58, 101, 120, 105, 116>>
LitQ == <<58, 113>>

\* main.c 413-435.
repl_should_exit(text, length) ==
  IF text = Null THEN TRUE
  ELSE LET len == TrimEnd(text, length)
           start == TrimStart(text, 0, len)
           trimmed_len == IF len > start THEN len - start ELSE 0
       IN  IF trimmed_len = 0 THEN TRUE
           ELSE \/ (trimmed_len = 5 /\ strncasecmp_eq(text, start, LitQuit, 5))
                \/ (trimmed_len = 4 /\ strncasecmp_eq(text, start, LitExit, 5))
                \/ (trimmed_len = 2 /\ strncasecmp_eq(text, start, LitQ, 2))

\* What the user types between the blanks: the sentinels in several
\* spellings, their prefixes and extensions, other text, nothing.
PromptWords ==
  { <<>>,
    LitQuit, <<58, 81, 85, 73, 84>>, <<58, 81, 117, 105, 116>>,
    LitExit, <<58, 69, 88, 73, 84>>, <<58, 69, 120, 105, 116>>,
    LitQ, <<58, 81>>,
    <<58, 101, 120, 105>>, <<58, 113, 117, 105>>, <<58>>, <<58, 101>>,
    <<58, 113, 117, 105, 116, 33>>, <<58, 101, 120, 105, 116, 115>>,
    <<58, 113, 33>>, <<113>>, <<113, 117, 105, 116>>, <<101, 120, 105, 116>>,
    <<58, 32, 113>>, <<58, 113, 32, 113>>, <<104, 105>>,
    <<58, 101, 120, 105, 84>>, <<58, 113, 117, 105, 120>> }

BlanksBefore == {<<>>, <<32>>, <<9, 32>>}

BlanksAfter == {<<>>, <<10>>, <<32, 13, 10>>}

\* The prompts gather_payload_root hands on: it rejects the empty one.
Prompts ==
  {p \in {b \o w \o a : b \in BlanksBefore, w \in PromptWords, a \in BlanksAfter} :
     Len(p) > 0}

SentinelInit ==
  /\ CursorIdle
  /\ SendIdle
  /\ MainIdle
  /\ SessionIdle
  /\ GatherIdle
  /\ ProviderIdle
  /\ JsonIdle
  /\ \E text \in Prompts :
       exitq = [pc |-> "captured", text |-> text, ready |-> 1, running |-> 1]

\* run_repl_session 738-748 on rank 0, the capture done.
SentinelTest ==
  /\ exitq.pc = "captured"
  /\ exitq' = [exitq EXCEPT
                 !.running = IF repl_should_exit(exitq.text, Len(exitq.text))
                               THEN 0 ELSE 1,
                 !.pc = "bcast"]
  /\ UNCHANGED <<cvars, svars, mvars, rvars, gvars, pvars, jvars>>

\* run_repl_session 750-776: running = 0 ends the loop, otherwise the prompt
\* goes into the payload of a turn.
SentinelBranch ==
  /\ exitq.pc = "bcast"
  /\ exitq' = [exitq EXCEPT !.pc = IF exitq.running = 0 THEN "left" ELSE "turn"]
  /\ UNCHANGED <<cvars, svars, mvars, rvars, gvars, pvars, jvars>>

NextSentinel == SentinelTest \/ SentinelBranch

SpecSentinel == SentinelInit /\ [][NextSentinel]_vars

\* The text without the blanks at its two ends.
RECURSIVE Stripped(_)
Stripped(text) ==
  IF text = <<>> THEN text
  ELSE IF isspace(Head(text)) THEN Stripped(Tail(text))
  ELSE IF isspace(text[Len(text)]) THEN Stripped(SubSeq(text, 1, Len(text) - 1))
  ELSE text

LowerAll(text) == [i \in 1 .. Len(text) |-> Lower(text[i])]

\* The prompt is empty between its blanks or is one of the three commands.
IsSentinel(text) ==
  LowerAll(Stripped(text)) \in {<<>>, LitQuit, LitExit, LitQ}

\* C40 as stated: a captured prompt ends the session exactly when, its
\* leading and trailing whitespace trimmed, it is empty or is ":quit",
\* ":exit" or ":q" in any case; every other prompt is sent as a turn.
C40_SentinelExactly ==
  /\ exitq.pc \in {"bcast", "left", "turn"} =>
       (exitq.running = 0 <=> IsSentinel(exitq.text))
  /\ exitq.pc = "left" => IsSentinel(exitq.text)
  /\ exitq.pc = "turn" => ~IsSentinel(exitq.text)

====
